---- MODULE Spec2Model ----
(***************************************************************************)
(* Oracle bootloader test harness: frame codec, protocol client, fault     *)
(* injector and scenario orchestrator (tests/oracle_bootloader/lib).       *)
(*                                                                         *)
(* The program is single-threaded and blocking.  It is modelled as a call  *)
(* stack of activation frames; every action executes the code of one       *)
(* function between two blocking calls.  Transport writes and reads get    *)
(* their outcome from the environment (the serial link and the device).    *)
(***************************************************************************)
EXTENDS Integers, Sequences, FiniteSets, TLC

VARIABLES
    serial_conn,        \* ProtocolClient.serial_conn: "None" or "open"
    transmission_log,   \* ProtocolClient.transmission_log
    config_loaded,      \* OracleScenarioRunner: load_scenarios has filled the two config maps
    stack,              \* call stack, innermost activation last
    ret,                \* value returned by the activation that finished last
    done,               \* the activation that finished last (procedure, arguments, locals)
    payload,            \* codec: payload handed to FrameBuilder.build_frame
    built,              \* codec: the frame build_frame returned for it
    wire,               \* codec: bytes on the serial line, not yet read
    decoded,            \* codec: the stream the last decode started on, and its outcome
    state,              \* UniversalFrameParser.state
    on_line,            \* stream: what was put on the line since the last flush, in order
    decoder_calls,      \* stream: the decoder calls since the last flush, with their outcomes
    backup_stack,       \* FlashSafety.backup_stack, each backup with whether it was restored
    checksums           \* checksum engine: the bytes last handed to it and the values returned

vars ==
    <<serial_conn, transmission_log, config_loaded, stack, ret, done,
      payload, built, wire, decoded, state, on_line, decoder_calls, backup_stack,
      checksums>>

clientVars == <<serial_conn, transmission_log, config_loaded, stack, ret, done>>
streamVars == <<state, on_line, decoder_calls>>
checksumVars == <<checksums>>
codecVars == <<payload, built, wire, decoded, streamVars, checksumVars>>
safetyVars == <<backup_stack>>

-----------------------------------------------------------------------------
(* Protocol constants *)

BOOTLOADER_FRAME_START == 126
BOOTLOADER_FRAME_END == 127
\* (a decoder that takes whatever two length bytes can state)
BOOTLOADER_MAX_PAYLOAD_SIZE_unchecked == (256 * 256) - 1

BOOTLOADER_MAX_PAYLOAD_SIZE == 1024
FRAME_ESCAPE == 125
ESCAPE_XOR == 32

SEQUENCE_IDS_Handshake ==
    [handshake |-> 1, prepare |-> 1, data |-> 1, verify |-> 1, recovery |-> 5]

SEQUENCE_IDS == [handshake |-> 1, prepare |-> 2, data |-> 3, verify |-> 4, recovery |-> 5]

-----------------------------------------------------------------------------
(* Bounds of the model *)

MaxPriorLog == 0
MaxSteps == 3
MaxLen == 3

-----------------------------------------------------------------------------
(* Values *)

NoData == [none |-> TRUE]

ProtocolResult(success, message, data, error_code) ==
    [t |-> "ProtocolResult", success |-> success, message |-> message,
     data |-> data, error_code |-> error_code]

Ok(message, data) == ProtocolResult(TRUE, message, data, "None")
Fail(message) == ProtocolResult(FALSE, message, NoData, "None")

Bool(v) == [t |-> "bool", v |-> v]
NoRet == [t |-> "none"]
NoneResult == [t |-> "None"]

\* What receive_response hands back: None, or the payload of a valid frame.
\* A payload is described by what the callers look at: whether protobuf
\* parses it, which oneof member is set, its sequence_id, ack.success and
\* whether it contains the legacy marker strings.
NoPayload ==
    [t |-> "payload", some |-> FALSE, dec |-> FALSE, kind |-> "none", seq |-> 0,
     ok |-> FALSE, legacy |-> FALSE, vs |-> FALSE]

Garbled(legacy, vs) ==
    [t |-> "payload", some |-> TRUE, dec |-> FALSE, kind |-> "none", seq |-> 0,
     ok |-> FALSE, legacy |-> legacy, vs |-> vs]

Message(kind, seq, ok, vs) ==
    [t |-> "payload", some |-> TRUE, dec |-> TRUE, kind |-> kind, seq |-> seq,
     ok |-> ok, legacy |-> FALSE, vs |-> vs]

\* the responses a device can give to a request frame: nothing usable, an
\* undecodable payload, an envelope with no member set, a handshake response
\* or an ack, echoing the sequence id of the request or another one
OtherSeqId(sent) == (sent % 4) + 1

Responses(request) ==
    LET sent == request.seq_id
    IN  {NoPayload, Garbled(FALSE, FALSE), Garbled(TRUE, FALSE), Garbled(FALSE, TRUE)}
        \cup {Message("handshake", s, FALSE, FALSE) : s \in {sent, OtherSeqId(sent)}}
        \cup {Message("ack", s, o, FALSE) : s \in {sent, OtherSeqId(sent)}, o \in BOOLEAN}
        \cup {Message("ack", sent, o, TRUE) : o \in BOOLEAN}
        \cup {Message("None", sent, FALSE, FALSE), Message("handshake", sent, FALSE, TRUE)}

\* the responses of a device that accepts every well-formed request: a
\* HandshakeResponse to a handshake, Ack{success=true} to the other requests
\* (the ack of a verify with or without the text VERIFY_SUCCESS in it), each
\* echoing the sequence id; it does not answer a frame whose CRC is wrong
AcceptingResponses(request) ==
    IF ~request.crc_ok THEN {NoPayload}
    ELSE IF request.req = "handshake"
         THEN {Message("handshake", request.seq_id, FALSE, FALSE)}
    ELSE IF request.req = "verify"
         THEN {Message("ack", request.seq_id, TRUE, vs) : vs \in BOOLEAN}
    ELSE {Message("ack", request.seq_id, TRUE, FALSE)}

-----------------------------------------------------------------------------
(* Call stack *)

Top == stack[Len(stack)]
Below == SubSeq(stack, 1, Len(stack) - 1)

NoLoc == [none |-> TRUE]
NoArg == [none |-> TRUE]

\* an activation; base is the length of the transmission log when it starts
Frame(proc, arg) ==
    [proc |-> proc, pc |-> "start", arg |-> arg, loc |-> NoLoc,
     base |-> Len(transmission_log)]

Running(proc, pc) == stack # <<>> /\ Top.proc = proc /\ Top.pc = pc

\* the running activation calls callee and will resume at pc with locals loc
Call(pc, loc, callee) ==
    /\ stack' = Append(Append(Below, [Top EXCEPT !.pc = pc, !.loc = loc]), callee)
    /\ ret' = NoRet
    /\ UNCHANGED done

\* the running activation returns v; loc are its locals at that point
Return(v, loc) ==
    /\ stack' = Below
    /\ ret' = v
    /\ done' = [proc |-> Top.proc, arg |-> Top.arg, loc |-> loc, base |-> Top.base]

NoDone == [proc |-> "none", arg |-> NoArg, loc |-> NoLoc, base |-> 0]

\* the running activation goes on at pc without calling anything
Goto(pc, loc) ==
    /\ stack' = Append(Below, [Top EXCEPT !.pc = pc, !.loc = loc])
    /\ ret' = NoRet
    /\ UNCHANGED done

\* the running activation goes on at pc with the value v of a callee that
\* touches neither the transport nor the stack (run in the same step)
Inlined(pc, loc, callee, v) ==
    /\ stack' = Append(Below, [Top EXCEPT !.pc = pc, !.loc = loc])
    /\ ret' = v
    /\ done' = [proc |-> callee, arg |-> NoArg, loc |-> NoLoc,
                base |-> Len(transmission_log)]

-----------------------------------------------------------------------------
(* Message Codec: size of the serialized request (bootloader_pb2) *)

VarintLen(v) == IF v < 128 THEN 1 ELSE IF v < 16384 THEN 2 ELSE 3

UintFieldLen(v) == IF v = 0 THEN 0 ELSE 1 + VarintLen(v)

BytesFieldLen(n) == IF n = 0 THEN 0 ELSE 1 + VarintLen(n) + n

SubMessageLen(inner) == 1 + VarintLen(inner) + inner

SerializedLen(req, n) ==
    CASE req = "handshake" -> 2 + SubMessageLen((2 + 35) + UintFieldLen(256))
      [] req = "prepare"   -> 2 + SubMessageLen(UintFieldLen(n))
      [] req = "verify"    -> 2 + SubMessageLen(UintFieldLen(n) + 2)
      [] req = "data"      -> 2 + SubMessageLen(BytesFieldLen(n) + 6)

-----------------------------------------------------------------------------
(* Checksum Engine *)

RECURSIVE Xor(_, _)
Xor(a, b) ==
    IF a = 0 THEN b
    ELSE IF b = 0 THEN a
    ELSE (((a % 2) + (b % 2)) % 2) + (2 * Xor(a \div 2, b \div 2))

CRC16_CCITT_POLY == 4129
CRC16_CCITT_INIT == 65535

\* one round of the inner loop: test bit 15, shift left, mask to 16 bits
Crc16Shift(crc) ==
    IF (crc \div 32768) % 2 = 1
    THEN Xor(crc * 2, CRC16_CCITT_POLY) % 65536
    ELSE (crc * 2) % 65536

RECURSIVE Crc16Rounds(_, _)
\* (v is the value after one round, computed before the next round starts)
Crc16Rounds(crc, n) ==
    IF n = 0 THEN crc
    ELSE CHOOSE result \in {Crc16Rounds(v, n - 1) : v \in {Crc16Shift(crc)}} : TRUE

\* the body of the loop over the bytes: XOR the byte into the high byte, then
\* eight rounds
Crc16Byte(crc, byte) == Crc16Rounds(Xor(crc, byte * 256), 8)

\* (v is the running value after the first byte, computed before the loop
\* takes up the next byte)
RECURSIVE Crc16From(_, _)
Crc16From(crc, data) ==
    IF data = <<>> THEN crc
    ELSE CHOOSE result \in {Crc16From(v, Tail(data)) : v \in {Crc16Byte(crc, Head(data))}} : TRUE

calculate_crc16_ccitt(data) == Crc16From(CRC16_CCITT_INIT, data)

\* struct.pack('>H', v)
PackBE16(v) == <<(v \div 256) % 256, v % 256>>

\* struct.unpack('>H', b)[0]
UnpackBE16(b) == b[1] * 256 + b[2]

\* ProtocolClient._calculate_crc32 works on values up to 0xFFFFFFFF; they are
\* kept as two 16-bit halves, high half first
CRC32_POLY == <<60856, 33568>>
CRC32_INIT == <<65535, 65535>>

\* one round of the inner loop: test bit 0, shift right
Crc32Shift(crc) ==
    LET shifted == <<crc[1] \div 2, (crc[2] \div 2) + ((crc[1] % 2) * 32768)>>
    IN  IF crc[2] % 2 = 1
        THEN <<Xor(shifted[1], CRC32_POLY[1]), Xor(shifted[2], CRC32_POLY[2])>>
        ELSE shifted

RECURSIVE Crc32Rounds(_, _)
Crc32Rounds(crc, n) == IF n = 0 THEN crc ELSE Crc32Rounds(Crc32Shift(crc), n - 1)

\* the body of the loop over the bytes: XOR the byte into the low byte, then
\* eight rounds
Crc32Byte(crc, byte) == Crc32Rounds(<<crc[1], Xor(crc[2], byte)>>, 8)

RECURSIVE Crc32From(_, _)
Crc32From(crc, data) ==
    IF data = <<>> THEN crc
    ELSE CHOOSE result \in {Crc32From(v, Tail(data)) : v \in {Crc32Byte(crc, Head(data))}} : TRUE

\* (a checksum returned without the final inversion)
_calculate_crc32_uninverted(data) == Crc32From(CRC32_INIT, data)

\* (~crc) & 0xFFFFFFFF
_calculate_crc32(data) ==
    LET crc == Crc32From(CRC32_INIT, data)
    IN  <<65535 - crc[1], 65535 - crc[2]>>

calculate_frame_crc16(length, data) == calculate_crc16_ccitt(PackBE16(length) \o data)

\* nothing has been handed to the checksum engine
NoChecksums == [data |-> <<>>, crc16 |-> -1, crc32 |-> <<>>]

-----------------------------------------------------------------------------
(* Frame Codec: FrameBuilder *)

\* (a builder that escapes the two frame markers only)
EscapeByteMarkersOnly(byte) ==
    IF byte = BOOTLOADER_FRAME_START \/ byte = BOOTLOADER_FRAME_END
    THEN <<FRAME_ESCAPE, Xor(byte, ESCAPE_XOR)>>
    ELSE <<byte>>

\* the bytes one payload byte becomes on the wire
EscapeByte(byte) ==
    IF byte = BOOTLOADER_FRAME_START \/ byte = BOOTLOADER_FRAME_END
    THEN <<FRAME_ESCAPE, Xor(byte, ESCAPE_XOR)>>
    ELSE IF byte = FRAME_ESCAPE
         THEN <<FRAME_ESCAPE, Xor(FRAME_ESCAPE, ESCAPE_XOR)>>
         ELSE <<byte>>

RECURSIVE EscapePayload(_)
EscapePayload(data) ==
    IF data = <<>> THEN <<>> ELSE EscapeByte(Head(data)) \o EscapePayload(Tail(data))

\* (a builder that accepts every payload)
PayloadTooLargeNever(length) == FALSE

\* build_frame raises ValueError for such a payload
PayloadTooLarge(length) == length > BOOTLOADER_MAX_PAYLOAD_SIZE

build_frame(data) ==
    <<BOOTLOADER_FRAME_START>>
        \o PackBE16(Len(data))
        \o EscapePayload(data)
        \o PackBE16(calculate_frame_crc16(Len(data), data))
        \o <<BOOTLOADER_FRAME_END>>

-----------------------------------------------------------------------------
(* Frame Codec: ProtocolClient.receive_response on a byte stream *)

\* serial.read(n): the next n bytes, fewer when the line goes quiet first
Take(stream, n) == SubSeq(stream, 1, IF n < Len(stream) THEN n ELSE Len(stream))
Drop(stream, n) == SubSeq(stream, (IF n < Len(stream) THEN n ELSE Len(stream)) + 1, Len(stream))

SYNC_ATTEMPTS == 32

\* the loop that searches the start marker, one read(1) per attempt
RECURSIVE FindStart(_, _)
FindStart(stream, attempts) ==
    IF attempts >= SYNC_ATTEMPTS THEN [found |-> FALSE, rest |-> stream]
    ELSE IF stream = <<>> THEN FindStart(stream, attempts + 1)
    ELSE IF Head(stream) = BOOTLOADER_FRAME_START THEN [found |-> TRUE, rest |-> Tail(stream)]
    ELSE FindStart(Tail(stream), attempts + 1)

Received(data, rest) == [some |-> TRUE, data |-> data, error |-> "none", rest |-> rest]
NotReceived(error, rest) == [some |-> FALSE, data |-> <<>>, error |-> error, rest |-> rest]

NothingDecoded == [input |-> <<>>, result |-> NotReceived("none", <<>>)]

receive_response_on(stream) ==
    LET sync == FindStart(stream, 0)
        length_bytes == Take(sync.rest, 2)
        after_length == Drop(sync.rest, 2)
        payload_length == UnpackBE16(length_bytes)
        data == Take(after_length, payload_length)
        after_payload == Drop(after_length, payload_length)
        crc_bytes == Take(after_payload, 2)
        after_crc == Drop(after_payload, 2)
        end_byte == Take(after_crc, 1)
        after_end == Drop(after_crc, 1)
    IN  IF ~sync.found THEN NotReceived("no start marker", sync.rest)
        ELSE IF Len(length_bytes) # 2 THEN NotReceived("no length", after_length)
        ELSE IF payload_length > BOOTLOADER_MAX_PAYLOAD_SIZE
             THEN NotReceived("invalid length", after_length)
        ELSE IF Len(data) # payload_length THEN NotReceived("incomplete payload", after_payload)
        ELSE IF Len(crc_bytes) # 2 THEN NotReceived("no crc", after_crc)
        ELSE IF end_byte = <<>> \/ end_byte[1] # BOOTLOADER_FRAME_END
             THEN NotReceived("invalid end marker", after_end)
        ELSE IF UnpackBE16(crc_bytes) # calculate_frame_crc16(payload_length, data)
             THEN NotReceived("crc mismatch", after_end)
        ELSE Received(data, after_end)

-----------------------------------------------------------------------------
(* Frame Codec: UniversalFrameParser.parse_frame on a byte stream *)

\* find_frame_start: bytes are read and discarded until the start marker;
\* the search ends only when the line stays quiet for read_timeout_ms
find_frame_start(stream) ==
    LET starts == {i \in 1..Len(stream) : stream[i] = BOOTLOADER_FRAME_START}
        first == CHOOSE i \in starts : \A j \in starts : i <= j
    IN  IF starts = {} THEN [found |-> FALSE, rest |-> <<>>]
        ELSE [found |-> TRUE, rest |-> SubSeq(stream, first + 1, Len(stream))]

\* read_with_timeout(num_bytes) returns None when the line goes quiet before
\* num_bytes arrived, and the bytes it had read are gone; `not payload` is
\* also true of the empty byte string read_with_timeout(0) returns
NothingRead(data_read, num_bytes) == data_read = <<>> \/ Len(data_read) # num_bytes

parse_frame_on(stream) ==
    LET sync == find_frame_start(stream)
        length_bytes == Take(sync.rest, 2)
        after_length == Drop(sync.rest, 2)
        payload_length == UnpackBE16(length_bytes)
        data == Take(after_length, payload_length)
        after_payload == Drop(after_length, payload_length)
        crc_bytes == Take(after_payload, 2)
        after_crc == Drop(after_payload, 2)
        end_byte == Take(after_crc, 1)
        after_end == Drop(after_crc, 1)
    IN  IF ~sync.found THEN NotReceived("Frame start marker not found", sync.rest)
        ELSE IF NothingRead(length_bytes, 2)
             THEN NotReceived("Failed to read length field", after_length)
        ELSE IF payload_length > BOOTLOADER_MAX_PAYLOAD_SIZE
             THEN NotReceived("Invalid payload length", after_length)
        ELSE IF NothingRead(data, payload_length)
             THEN NotReceived("Incomplete payload", after_payload)
        ELSE IF NothingRead(crc_bytes, 2)
             THEN NotReceived("Failed to read CRC field", after_crc)
        ELSE IF NothingRead(end_byte, 1)
             THEN NotReceived("Failed to read end marker", after_end)
        ELSE IF end_byte[1] # BOOTLOADER_FRAME_END
             THEN NotReceived("Invalid end marker", after_end)
        ELSE IF UnpackBE16(crc_bytes) # calculate_frame_crc16(payload_length, data)
             THEN NotReceived("CRC mismatch", after_end)
        ELSE Received(data, after_end)

\* FrameBuilder.corrupt_frame_crc on the bytes of a frame: the high CRC byte
\* (frame[-3]) is inverted unless the frame is shorter than 6 bytes
corrupt_frame_crc_bytes(frame) ==
    IF Len(frame) < 6 THEN frame
    ELSE [frame EXCEPT ![Len(frame) - 2] = Xor(frame[Len(frame) - 2], 255)]

\* the start marker and a length field of 32 with nothing after them, as
\* inject_partial_frame_timeout sends them
PARTIAL_FRAME_LENGTH == 32

partial_frame == <<BOOTLOADER_FRAME_START>> \o PackBE16(PARTIAL_FRAME_LENGTH)

-----------------------------------------------------------------------------
(* Protocol Client: request frames *)

\* TestDataGenerator.generate_test_data(size, "incremental") holds byte i % 256
\* at index i; the bytes of it that build_frame escapes
EscapedInIncremental(size) ==
    Cardinality({i \in 0..(size - 1) :
        (i % 256) \in {FRAME_ESCAPE, BOOTLOADER_FRAME_START, BOOTLOADER_FRAME_END}})

\* a request frame as send_raw_frame sees it: which request it carries
\* (readable in the first bytes of the frame), the data length the request
\* states (total_data_length, or the size of the data packet), the length
\* field and its size
RequestFrame(req, seq_id, n) ==
    [req |-> req, seq_id |-> seq_id, crc_ok |-> TRUE, data_length |-> n,
     payload_len |-> SerializedLen(req, n),
     len |-> 1 + 2 + SerializedLen(req, n)
                + (IF req = "data" THEN EscapedInIncremental(n) ELSE 0) + 2 + 1]

\* (a corruption that leaves the frame as it was)
corrupt_frame_crc_unchanged(frame) == frame

\* FrameBuilder.corrupt_frame_crc: frame[-3] ^= 0xFF unless the frame is shorter than 6
corrupt_frame_crc(frame) ==
    IF frame.len < 6 THEN frame ELSE [frame EXCEPT !.crc_ok = FALSE, !.req = "corrupted"]

\* the three bytes 7E 00 20 of inject_partial_frame_timeout
PartialFrame ==
    [req |-> "partial", seq_id |-> 0, crc_ok |-> TRUE, data_length |-> 0,
     payload_len |-> PARTIAL_FRAME_LENGTH, len |-> 3]

\* a caller of send_raw_frame may pass any bytes, also none
EmptyFrame ==
    [req |-> "empty", seq_id |-> 0, crc_ok |-> TRUE, data_length |-> 0,
     payload_len |-> 0, len |-> 0]

-----------------------------------------------------------------------------
(* Protocol Client: transport *)

FrameType(len) ==
    IF len > 40 THEN "datapacket"
    ELSE IF len > 20 THEN "handshake"
    ELSE IF len > 5 THEN "prepare"
    ELSE "unknown"

TransmissionRecord(frame, bytes_written, raised) ==
    [frame_type |-> FrameType(frame.len),
     frame_length_total |-> frame.len,
     payload_length_expected |-> IF frame.len > 5 THEN frame.payload_len ELSE 0,
     bytes_written |-> bytes_written,
     success |-> (~raised /\ bytes_written = frame.len),
     error |-> raised,
     frame_hex_preview |-> [req |-> frame.req, seq_id |-> frame.seq_id]]

\* what serial.write does with a frame: takes it all, takes less, or raises
WriteOutcomes == {"all", "short", "raise"}

BytesWritten(frame, outcome) ==
    CASE outcome = "all"   -> frame.len
      [] outcome = "short" -> frame.len - 1
      [] outcome = "raise" -> 0

\* an operation that calls nothing of the model is run in one step on an
\* idle client and returns v
Finished(proc, v) ==
    /\ ret' = v
    /\ done' = [proc |-> proc, arg |-> NoArg, loc |-> NoLoc, base |-> Len(transmission_log)]
    /\ UNCHANGED stack

\* what connect can do: serial.Serial(...) opens the port and the buffers are
\* flushed; or the port is opened and assigned and flush_serial_buffers
\* raises; or serial.Serial(...) raises and serial_conn stays as it was
ConnectOutcomes ==
    {[serial_conn |-> "open", connected |-> TRUE],
     [serial_conn |-> "open", connected |-> FALSE],
     [serial_conn |-> serial_conn, connected |-> FALSE]}

connect ==
    /\ stack = <<>>
    /\ \E outcome \in ConnectOutcomes :
         /\ serial_conn' = outcome.serial_conn
         /\ Finished("connect", Bool(outcome.connected))
    /\ UNCHANGED <<transmission_log, config_loaded, codecVars, safetyVars>>

disconnect ==
    /\ stack = <<>>
    /\ serial_conn' = "None"
    /\ Finished("disconnect", NoneResult)
    /\ UNCHANGED <<transmission_log, config_loaded, codecVars, safetyVars>>

Written(outcomes) ==
    /\ Running("send_raw_frame", "start")
    /\ IF serial_conn # "open"
       THEN /\ Return(Bool(FALSE), Top.loc)
            /\ UNCHANGED transmission_log
       ELSE \E outcome \in {o \in outcomes : o = "short" => Top.arg.frame.len > 0} :
              LET frame == Top.arg.frame
                  bytes_written == BytesWritten(frame, outcome)
                  logged == Append(transmission_log,
                                   TransmissionRecord(frame, bytes_written, outcome = "raise"))
              IN  IF outcome # "raise" /\ frame.len = 0
                  THEN \* hex(frame[0]) in the debug message after the append
                       \* raises IndexError, and the except clause logs again
                       /\ transmission_log' = Append(logged, TransmissionRecord(frame, 0, TRUE))
                       /\ Return(Bool(FALSE), Top.loc)
                  ELSE /\ transmission_log' = logged
                       /\ Return(Bool(outcome # "raise" /\ bytes_written = frame.len), Top.loc)
    /\ UNCHANGED <<serial_conn, config_loaded, codecVars, safetyVars>>

send_raw_frame == Written(WriteOutcomes)

\* the frame the caller of receive_response has sent: the request of a phase
\* operation, or the corrupted handshake of inject_crc_frame_corruption
PendingRequest ==
    IF "request" \in DOMAIN stack[Len(stack) - 1].loc
    THEN stack[Len(stack) - 1].loc.request
    ELSE corrupt_frame_crc(RequestFrame("handshake", 1, 0))

\* accepting: the device at the other end accepts every request
Answered(accepting) ==
    /\ Running("receive_response", "start")
    /\ IF serial_conn # "open"
       THEN Return(NoPayload, Top.loc)
       ELSE \E response \in (IF accepting THEN AcceptingResponses(PendingRequest)
                                          ELSE Responses(PendingRequest)) :
              Return(response, Top.loc)
    /\ UNCHANGED <<serial_conn, transmission_log, config_loaded, codecVars, safetyVars>>

receive_response == Answered(FALSE)

-----------------------------------------------------------------------------
(* Protocol Client: the four phase operations *)

HandshakeResult(response) ==
    IF response.dec
    THEN IF response.kind = "handshake"
         THEN Ok(<<"Handshake completed">>, [bootloader_version |-> "device"])
         ELSE Fail(<<"Unexpected response type", response.kind>>)
    ELSE IF response.legacy
         THEN Ok(<<"Handshake completed">>, [bootloader_version |-> "4.6.3"])
         ELSE Fail(<<"Invalid handshake response">>)

PrepareResultAnyAck(response) ==
    IF response.dec /\ response.kind = "ack"
    THEN Ok(<<"Prepare phase completed">>, [message |-> "ack"])
    ELSE Fail(<<"Invalid prepare response">>)

PrepareResult(response) ==
    IF response.dec
    THEN IF response.kind = "ack"
         THEN IF response.ok
              THEN Ok(<<"Prepare phase completed">>, [message |-> "ack"])
              ELSE Fail(<<"Prepare failed">>)
         ELSE Fail(<<"Unexpected prepare response type", response.kind>>)
    ELSE Fail(<<"Invalid prepare response">>)

DataResult(response) ==
    IF response.dec
    THEN IF response.kind = "ack"
         THEN IF response.ok
              THEN Ok(<<"Data transfer completed">>,
                      [bytes_transferred |-> Top.arg.n, message |-> "ack"])
              ELSE Fail(<<"Data transfer failed">>)
         ELSE Fail(<<"Unexpected data response type", response.kind>>)
    ELSE Fail(<<"Invalid data response">>)

VerifyResult(response) ==
    IF response.vs
    THEN Ok(<<"Verification completed">>, NoData)
    ELSE Fail(<<"Flash verification failed">>)

\* what a phase operation makes of the payload it received
Interpreted(proc, response) ==
    CASE proc = "execute_handshake"     -> HandshakeResult(response)
      [] proc = "execute_prepare_flash" -> PrepareResult(response)
      [] proc = "execute_data_transfer" -> DataResult(response)
      [] proc = "execute_verify_flash"  -> VerifyResult(response)

\* the code shared by the phase operations: build the frame and send it,
\* wait for the response, interpret it
PhaseExchange(proc, frame, error, send_failed, receive_failed) ==
    /\ \/ /\ Running(proc, "start")
          /\ IF PayloadTooLarge(frame.payload_len)
             THEN Return(error, [request |-> frame, response |-> NoPayload])
             ELSE Call("sent", [request |-> frame, response |-> NoPayload],
                       Frame("send_raw_frame", [frame |-> frame]))
       \/ /\ Running(proc, "sent")
          /\ IF ~ret.v
             THEN Return(send_failed, Top.loc)
             ELSE Call("received", Top.loc, Frame("receive_response", NoArg))
       \/ /\ Running(proc, "received")
          /\ IF ~ret.some
             THEN Return(receive_failed, [Top.loc EXCEPT !.response = ret])
             ELSE Return(Interpreted(proc, ret), [Top.loc EXCEPT !.response = ret])
    /\ UNCHANGED <<serial_conn, transmission_log, config_loaded, codecVars, safetyVars>>

execute_handshake ==
    PhaseExchange("execute_handshake",
                  RequestFrame("handshake", SEQUENCE_IDS.handshake, 0),
                  Fail(<<"Handshake error">>),
                  Fail(<<"Failed to send handshake frame">>),
                  Fail(<<"Failed to receive handshake response">>))

execute_prepare_flash ==
    /\ stack # <<>>
    /\ Top.proc = "execute_prepare_flash"
    /\ PhaseExchange("execute_prepare_flash",
                     RequestFrame("prepare", SEQUENCE_IDS.prepare, Top.arg.n),
                     Fail(<<"Prepare error">>),
                     Fail(<<"Failed to send prepare frame">>),
                     Fail(<<"Failed to receive prepare response">>))

execute_data_transfer ==
    /\ stack # <<>>
    /\ Top.proc = "execute_data_transfer"
    /\ PhaseExchange("execute_data_transfer",
                     RequestFrame("data", SEQUENCE_IDS.data, Top.arg.n),
                     Fail(<<"Data transfer error">>),
                     ProtocolResult(FALSE, <<"Failed to send data frame">>,
                         [failure_point |-> "datapacket_transmission"], "None"),
                     ProtocolResult(FALSE, <<"Failed to receive data response">>,
                         [failure_point |-> "datapacket_response_timeout"], "None"))

\* getattr(self, 'staged_data_length', 256): the attribute is assigned nowhere
STAGED_DATA_LENGTH_DEFAULT == 256

execute_verify_flash ==
    PhaseExchange("execute_verify_flash",
                  RequestFrame("verify", SEQUENCE_IDS.verify, STAGED_DATA_LENGTH_DEFAULT),
                  Fail(<<"Verify error">>),
                  Fail(<<"Failed to send FlashProgramRequest">>),
                  Fail(<<"Failed to receive verify response">>))

-----------------------------------------------------------------------------
(* Protocol Client: the composite session *)

RECURSIVE SumBytesWritten(_)
SumBytesWritten(log) ==
    IF log = <<>> THEN 0 ELSE Head(log).bytes_written + SumBytesWritten(Tail(log))

\* locals of execute_complete_protocol: the results the phases returned so far
Phased(result) ==
    IF Top.loc = NoLoc THEN [results |-> <<result>>]
    ELSE [results |-> Append(Top.loc.results, result)]

\* (a session that goes on whatever a phase returned)
PhaseFailedNever(result) == FALSE

\* the test after each phase: if not <phase>_result.success
PhaseFailed(result) == ~result.success

execute_complete_protocol ==
    /\ \/ /\ Running("execute_complete_protocol", "start")
          /\ Call("handshake", NoLoc, Frame("execute_handshake", NoArg))
       \/ /\ Running("execute_complete_protocol", "handshake")
          /\ IF PhaseFailed(ret)
             THEN Return(Fail(<<"Handshake failed">> \o ret.message), Phased(ret))
             ELSE Call("prepare", Phased(ret),
                       Frame("execute_prepare_flash", [n |-> Top.arg.n]))
       \/ /\ Running("execute_complete_protocol", "prepare")
          /\ IF PhaseFailed(ret)
             THEN Return(Fail(<<"Prepare failed">> \o ret.message), Phased(ret))
             ELSE Call("data", Phased(ret),
                       Frame("execute_data_transfer", [n |-> Top.arg.n]))
       \/ /\ Running("execute_complete_protocol", "data")
          /\ IF PhaseFailed(ret)
             THEN Return(Fail(<<"Data transfer failed">> \o ret.message), Phased(ret))
             ELSE Call("verify", Phased(ret), Frame("execute_verify_flash", NoArg))
       \/ /\ Running("execute_complete_protocol", "verify")
          /\ IF PhaseFailed(ret)
             THEN Return(Fail(<<"Verify failed">> \o ret.message), Phased(ret))
             ELSE Return(Ok(<<"Complete protocol sequence successful">>,
                            [test_data_size |-> Top.arg.n,
                             transmission_log |-> transmission_log,
                             frame_count |-> Len(transmission_log),
                             total_bytes_sent |-> SumBytesWritten(transmission_log)]),
                         Phased(ret))
    /\ UNCHANGED <<serial_conn, transmission_log, config_loaded, codecVars, safetyVars>>

-----------------------------------------------------------------------------
(* Fault Injector *)

\* (a late prepare counted as rejected whatever it returned)
SessionTimedOutAlways(prepare_result) == TRUE

\* the test on the prepare sent after the delay: if prepare_result.success
\* the bootloader did not time out
SessionTimedOut(prepare_result) == ~prepare_result.success

inject_timeout_session ==
    /\ \/ /\ Running("inject_timeout_session", "start")
          /\ Call("handshake", NoLoc, Frame("execute_handshake", NoArg))
       \/ /\ Running("inject_timeout_session", "handshake")
          /\ IF ~ret.success
             THEN Return(Fail(<<"Failed to establish session for timeout test">> \o ret.message),
                         Phased(ret))
             ELSE Call("prepare", Phased(ret), Frame("execute_prepare_flash", [n |-> 256]))
       \/ /\ Running("inject_timeout_session", "prepare")
          /\ IF ~SessionTimedOut(ret)
             THEN Return(Fail(<<"Session timeout did not occur as expected">>), Phased(ret))
             ELSE Return(Ok(<<"Session timeout successfully triggered">>,
                            [expected_timeout |-> 30]), Phased(ret))
    /\ UNCHANGED <<serial_conn, transmission_log, config_loaded, codecVars, safetyVars>>

\* time.sleep(delay_seconds) raises for a delay that is negative or not a
\* number; the delay comes from the caller
DelayAccepted == BOOLEAN

\* the first step of inject_timeout_handshake: the sleep, then the handshake
DelayedHandshake ==
    /\ Running("inject_timeout_handshake", "start")
    /\ \E slept \in DelayAccepted :
         IF slept
         THEN Call("handshake", NoLoc, Frame("execute_handshake", NoArg))
         ELSE Return(Fail(<<"Handshake timeout test error">>), [results |-> <<>>])

\* (an injector that reports a rejected handshake as a failure)
inject_timeout_handshake_strict ==
    /\ \/ DelayedHandshake
       \/ /\ Running("inject_timeout_handshake", "handshake")
          /\ Return(IF ret.success
                    THEN Ok(<<"Handshake succeeded after delay (no timeout)">>, NoData)
                    ELSE Fail(<<"Handshake timeout successfully triggered">>), Phased(ret))
    /\ UNCHANGED <<serial_conn, transmission_log, config_loaded, codecVars, safetyVars>>

inject_timeout_handshake ==
    /\ \/ DelayedHandshake
       \/ /\ Running("inject_timeout_handshake", "handshake")
          /\ IF ret.success
             THEN Return(Ok(<<"Handshake succeeded after delay (no timeout)">>, NoData),
                         Phased(ret))
             ELSE Return(Ok(<<"Handshake timeout successfully triggered">>,
                            [expected_timeout |-> 2]), Phased(ret))
    /\ UNCHANGED <<serial_conn, transmission_log, config_loaded, codecVars, safetyVars>>

\* locals of the two injectors that send a raw frame first
Injected(sent, answered, recovery) ==
    [sent |-> sent, answered |-> answered, recovery |-> recovery]

inject_crc_frame_corruption ==
    /\ \/ /\ Running("inject_crc_frame_corruption", "start")
          /\ Call("sent", Injected(FALSE, FALSE, NoRet),
                  Frame("send_raw_frame",
                        [frame |-> corrupt_frame_crc(RequestFrame("handshake", 1, 0))]))
       \/ /\ Running("inject_crc_frame_corruption", "sent")
          /\ IF ~ret.v
             THEN Return(Fail(<<"Failed to send corrupted frame">>), Top.loc)
             ELSE Call("received", Injected(TRUE, FALSE, NoRet),
                       Frame("receive_response", NoArg))
       \/ /\ Running("inject_crc_frame_corruption", "received")
          /\ IF ret.some
             THEN Return(Fail(<<"Bootloader did not reject corrupted CRC frame">>),
                         Injected(TRUE, TRUE, NoRet))
             ELSE Call("recovery", Top.loc, Frame("execute_handshake", NoArg))
       \/ /\ Running("inject_crc_frame_corruption", "recovery")
          /\ IF ret.success
             THEN Return(Ok(<<"CRC corruption test successful - bootloader recovered">>,
                            [corruption_detected |-> TRUE, recovery_successful |-> TRUE]),
                         Injected(TRUE, FALSE, ret))
             ELSE Return(Ok(<<"CRC corruption detected but recovery failed">>,
                            [corruption_detected |-> TRUE, recovery_successful |-> FALSE]),
                         Injected(TRUE, FALSE, ret))
    /\ UNCHANGED <<serial_conn, transmission_log, config_loaded, codecVars, safetyVars>>

inject_partial_frame_timeout ==
    /\ \/ /\ Running("inject_partial_frame_timeout", "start")
          /\ Call("sent", Injected(FALSE, FALSE, NoRet),
                  Frame("send_raw_frame", [frame |-> PartialFrame]))
       \/ /\ Running("inject_partial_frame_timeout", "sent")
          /\ IF ~ret.v
             THEN Return(Fail(<<"Failed to send partial frame">>), Top.loc)
             ELSE Call("recovery", Injected(TRUE, FALSE, NoRet),
                       Frame("execute_handshake", NoArg))
       \/ /\ Running("inject_partial_frame_timeout", "recovery")
          /\ IF ret.success
             THEN Return(Ok(<<"Partial frame timeout test successful - recovery worked">>,
                            NoData), Injected(TRUE, FALSE, ret))
             ELSE Return(Ok(<<"Partial frame timeout detected but recovery failed">>,
                            NoData), Injected(TRUE, FALSE, ret))
    /\ UNCHANGED <<serial_conn, transmission_log, config_loaded, codecVars, safetyVars>>

\* ErrorScenarioRunner.run_error_scenario: the injector a scenario name selects
run_error_scenario(scenario_name) ==
    CASE scenario_name = "timeout_session"       -> "inject_timeout_session"
      [] scenario_name = "timeout_handshake"     -> "inject_timeout_handshake"
      [] scenario_name = "crc_frame_corruption"  -> "inject_crc_frame_corruption"
      [] scenario_name = "partial_frame_timeout" -> "inject_partial_frame_timeout"

-----------------------------------------------------------------------------
(* Scenario Orchestrator: configuration *)

\* dict.get(key, default)
Get(dict, key, default) == IF key \in DOMAIN dict THEN dict[key] ELSE default

\* the scenario definitions the configuration file supplies
ScenarioCatalog ==
    "normal"     :> [error_type |-> "none", test_payload_size |-> 256,
                     validation_level |-> "basic"]
 @@ "normal_cp"  :> [error_type |-> "none", validation_level |-> "complete_protocol"]
 @@ "session_to" :> [error_type |-> "timeout", validation_level |-> "recovery_handshake"]
 @@ "hs_to"      :> [error_type |-> "timeout", injection_point |-> "before_handshake",
                     validation_level |-> "recovery_protocol"]
 @@ "partial"    :> [error_type |-> "timeout", injection_point |-> "partial_frame"]
 @@ "crc"        :> [error_type |-> "crc_corruption", validation_level |-> "recovery_handshake"]
 @@ "bad_point"  :> [error_type |-> "timeout", injection_point |-> "mid_transfer"]
 @@ "bad_type"   :> [error_type |-> "bit_flip"]
 @@ "odd_level"  :> [error_type |-> "crc_corruption", validation_level |-> "paranoid"]

NoConfig == [name \in {} |-> NoArg]

\* (a configuration that answers an unlisted name with the scenario 'normal')
scenarios_config_defaulting ==
    [name \in DOMAIN ScenarioCatalog \cup {"missing"} |->
        IF name \in DOMAIN ScenarioCatalog THEN ScenarioCatalog[name]
        ELSE ScenarioCatalog["normal"]]

scenarios_config == IF config_loaded THEN ScenarioCatalog ELSE NoConfig

\* a sequence step is a scenario name, a mapping with a 'scenario' entry, or
\* something else
StepChoices ==
    {[kind |-> "str", scenario |-> "bad_type"],
     [kind |-> "dict", scenario |-> "crc"],
     [kind |-> "other", scenario |-> "None"]}

StepLists == UNION {[1..n -> StepChoices] : n \in 0..MaxSteps}

\* the sequence definitions the configuration file supplies; the model names
\* a sequence by its listing
SequenceCatalog == [name \in StepLists |-> [sequence |-> name]]

sequences_config == IF config_loaded THEN SequenceCatalog ELSE NoConfig

UnknownSequence == <<[kind |-> "str", scenario |-> "unlisted"]>>

ScenarioNames == DOMAIN ScenarioCatalog \cup {"missing"}

\* the file is read and both maps are filled, or reading it raises
load_scenarios ==
    /\ stack = <<>>
    /\ ~config_loaded
    /\ \/ /\ config_loaded' = TRUE
          /\ Finished("load_scenarios", Bool(TRUE))
       \/ /\ UNCHANGED config_loaded
          /\ Finished("load_scenarios", Bool(FALSE))
    /\ UNCHANGED <<serial_conn, transmission_log, codecVars, safetyVars>>

-----------------------------------------------------------------------------
(* FlashSafety: the backup stack of pyocd_manager *)

BOOTLOADER_TEST_PAGE_ADDR == 134346752

\* backups kept at a time
MaxBackups == 1

BackupId(v) == [t |-> "int", v |-> v]

\* FlashSafety.create_backup: the page is read and pushed and its index is
\* returned, or backup_flash_page returns None and so does create_backup
create_backup ==
    /\ stack = <<>>
    /\ Len(backup_stack) < MaxBackups
    /\ \/ /\ backup_stack' = Append(backup_stack,
                                     [address |-> BOOTLOADER_TEST_PAGE_ADDR, restored |-> FALSE])
          /\ Finished("create_backup", BackupId(Len(backup_stack)))
       \/ /\ UNCHANGED backup_stack
          /\ Finished("create_backup", NoneResult)
    /\ UNCHANGED <<serial_conn, transmission_log, config_loaded, codecVars>>

\* FlashSafety.restore_backup(None): the most recent backup is written back
\* to the page, if there is one and restore_flash_page succeeds; the backup
\* stays on the stack
restore_backup ==
    /\ stack = <<>>
    /\ IF backup_stack = <<>>
       THEN /\ UNCHANGED backup_stack
            /\ Finished("restore_backup", Bool(FALSE))
       ELSE \/ /\ backup_stack' = [backup_stack EXCEPT ![Len(backup_stack)].restored = TRUE]
               /\ Finished("restore_backup", Bool(TRUE))
            \/ /\ UNCHANGED backup_stack
               /\ Finished("restore_backup", Bool(FALSE))
    /\ UNCHANGED <<serial_conn, transmission_log, config_loaded, codecVars>>

clear_backups ==
    /\ stack = <<>>
    /\ backup_stack' = <<>>
    /\ Finished("clear_backups", NoneResult)
    /\ UNCHANGED <<serial_conn, transmission_log, config_loaded, codecVars>>

-----------------------------------------------------------------------------
(* Scenario Orchestrator: validation *)

_validate_basic_passes ==
    Ok(<<"Basic validation: Serial connection active">>, NoData)

_validate_basic ==
    IF serial_conn = "open"
    THEN Ok(<<"Basic validation: Serial connection active">>, NoData)
    ELSE Fail(<<"Basic validation: Serial connection failed">>)

validate_scenario ==
    /\ \/ /\ Running("validate_scenario", "start")
          /\ CASE Top.arg.level = "recovery_handshake" ->
                    Call("recovery_handshake", NoLoc, Frame("execute_handshake", NoArg))
               [] Top.arg.level = "recovery_protocol" ->
                    Call("recovery_protocol_handshake", NoLoc, Frame("execute_handshake", NoArg))
               [] Top.arg.level = "complete_protocol" ->
                    Call("complete_protocol", NoLoc,
                         Frame("execute_complete_protocol", [n |-> 128]))
               [] OTHER -> Return(_validate_basic, NoLoc)
       \/ /\ Running("validate_scenario", "recovery_handshake")
          /\ IF ret.success
             THEN Return(Ok(<<"Recovery validation: Handshake successful">>, NoData), Phased(ret))
             ELSE Return(Fail(<<"Recovery validation: Handshake failed">> \o ret.message),
                         Phased(ret))
       \/ /\ Running("validate_scenario", "recovery_protocol_handshake")
          /\ IF ~ret.success
             THEN Return(Fail(<<"Recovery protocol: Handshake failed">> \o ret.message),
                         Phased(ret))
             ELSE Call("recovery_protocol_prepare", Phased(ret),
                       Frame("execute_prepare_flash", [n |-> 128]))
       \/ /\ Running("validate_scenario", "recovery_protocol_prepare")
          /\ IF ~ret.success
             THEN Return(Fail(<<"Recovery protocol: Prepare failed">> \o ret.message),
                         Phased(ret))
             ELSE Return(Ok(<<"Recovery validation: Mini protocol successful">>, NoData),
                         Phased(ret))
       \/ /\ Running("validate_scenario", "complete_protocol")
          /\ IF ret.success
             THEN Return(Ok(<<"Complete protocol validation successful">>, NoData), Phased(ret))
             ELSE Return(Fail(<<"Complete protocol validation failed">> \o ret.message),
                         Phased(ret))
    /\ UNCHANGED <<serial_conn, transmission_log, config_loaded, codecVars, safetyVars>>

-----------------------------------------------------------------------------
(* Scenario Orchestrator: scenarios and sequences *)

ScenarioResult(success, scenario_name, message, data, error_details) ==
    [t |-> "ScenarioResult", success |-> success, scenario_name |-> scenario_name,
     message |-> message, data |-> data, error_details |-> error_details]

SequenceResult(success, sequence_name, message, scenario_results, failed_at_scenario) ==
    [t |-> "SequenceResult", success |-> success, sequence_name |-> sequence_name,
     message |-> message, scenario_results |-> scenario_results,
     failed_at_scenario |-> failed_at_scenario]

\* locals of execute_single_scenario: what the scenario action and the
\* validation returned (NoRet while they have not)
Outcome(result, validation_result) ==
    [result |-> result, validation_result |-> validation_result]

\* (a dispatcher that lets an unknown error type pass)
UnknownErrorTypeAccepted(error_type) == Ok(<<"Unknown error type", error_type>>, NoData)

\* ProtocolResult(False, f"Unknown error type: {error_type}")
UnknownErrorType(error_type) == Fail(<<"Unknown error type", error_type>>)

\* _run_scenario_by_type: the operation the configuration selects; the
\* dispatcher falls off its end (returns None) for an injection_point it
\* does not know
_run_scenario_by_type(scenario_config) ==
    LET error_type == Get(scenario_config, "error_type", "none")
        injection_point == Get(scenario_config, "injection_point", "after_handshake")
    IN  CASE error_type = "none" ->
               [call |-> TRUE,
                callee |-> Frame("execute_complete_protocol",
                                 [n |-> Get(scenario_config, "test_payload_size", 256)])]
          [] error_type = "timeout" /\ injection_point = "after_handshake" ->
               [call |-> TRUE,
                callee |-> Frame(run_error_scenario("timeout_session"), NoArg)]
          [] error_type = "timeout" /\ injection_point = "before_handshake" ->
               [call |-> TRUE,
                callee |-> Frame(run_error_scenario("timeout_handshake"), NoArg)]
          [] error_type = "timeout" /\ injection_point = "partial_frame" ->
               [call |-> TRUE,
                callee |-> Frame(run_error_scenario("partial_frame_timeout"), NoArg)]
          [] error_type = "timeout" /\ injection_point \notin
                 {"after_handshake", "before_handshake", "partial_frame"} ->
               [call |-> FALSE, value |-> NoneResult]
          [] error_type = "crc_corruption" ->
               [call |-> TRUE,
                callee |-> Frame(run_error_scenario("crc_frame_corruption"), NoArg)]
          [] OTHER ->
               [call |-> FALSE, value |-> UnknownErrorType(error_type)]

\* (a scenario that passes whatever the validation returned)
ValidationPassedAlways(validation_result) == TRUE

\* the test on the validation: if validation_result.success
ValidationPassed(validation_result) == validation_result.success

\* (a runner that validates whatever the scenario action returned)
ScenarioPassedAlways(result) == TRUE

\* the test on the scenario action: if result.success
ScenarioPassed(result) == result.success

\* (a scenario that restores every flash backup)
ScenarioFlashSafetyRestores ==
    backup_stack' = [i \in DOMAIN backup_stack |-> [backup_stack[i] EXCEPT !.restored = TRUE]]

\* what the try and the finally block of execute_single_scenario do for the
\* flash: "No hardware reset needed - workspace handles this" and
\* "No flash restore needed - workspace handles hardware state", then pass
ScenarioFlashSafety == UNCHANGED backup_stack

execute_single_scenario ==
    /\ \/ /\ Running("execute_single_scenario", "start")
          /\ IF Top.arg.scenario_name \notin DOMAIN scenarios_config
             THEN Return(ScenarioResult(FALSE, Top.arg.scenario_name, <<"Scenario not found">>,
                                        NoData, "Missing scenario configuration"),
                         Outcome(NoRet, NoRet))
             ELSE LET run == _run_scenario_by_type(scenarios_config[Top.arg.scenario_name])
                  IN  IF run.call
                      THEN Call("ran", Outcome(NoRet, NoRet), run.callee)
                      ELSE Inlined("ran", Outcome(NoRet, NoRet), "_run_scenario_by_type",
                                   run.value)
       \/ /\ Running("execute_single_scenario", "ran")
          /\ IF ret.t = "None"
             THEN \* result.success raises AttributeError, caught by the handler
                  Return(ScenarioResult(FALSE, Top.arg.scenario_name, <<"Exception">>,
                                        NoData, "exception"),
                         Outcome(ret, NoRet))
             ELSE IF ScenarioPassed(ret)
             THEN Call("validated", Outcome(ret, NoRet),
                       Frame("validate_scenario",
                             [level |-> Get(scenarios_config[Top.arg.scenario_name],
                                            "validation_level", "basic")]))
             ELSE Return(ScenarioResult(FALSE, Top.arg.scenario_name,
                                        <<"Scenario failed">> \o ret.message,
                                        NoData, ret.error_code),
                         Outcome(ret, NoRet))
       \/ /\ Running("execute_single_scenario", "validated")
          /\ IF ValidationPassed(ret)
             THEN Return(ScenarioResult(TRUE, Top.arg.scenario_name,
                                        <<"Scenario successful">> \o Top.loc.result.message,
                                        [validation |-> ret.message], "None"),
                         Outcome(Top.loc.result, ret))
             ELSE Return(ScenarioResult(FALSE, Top.arg.scenario_name,
                                        <<"Validation failed">> \o ret.message,
                                        NoData, "Post-scenario validation failed"),
                         Outcome(Top.loc.result, ret))
    /\ ScenarioFlashSafety
    /\ UNCHANGED <<serial_conn, transmission_log, config_loaded, codecVars>>

\* locals of execute_scenario_sequence: position in sequence_steps and the
\* results collected
Progress(i, scenario_results) == [i |-> i, scenario_results |-> scenario_results]

\* (a loop that runs every step as a scenario)
StepNamesScenarioAlways(step) == TRUE

\* the test on a step's format: isinstance(step, str) or isinstance(step, dict)
StepNamesScenario(step) == step.kind \in {"str", "dict"}

\* (a loop that goes on after a failed step)
StepFailedNever(step_result) == FALSE

\* the test on a step's result: if not step_result.success
StepFailed(step_result) == ~step_result.success

\* (a loop that leaves one step early)
StepsExhaustedEarly(i, sequence_steps) == i >= Len(sequence_steps)

\* the for loop over sequence_steps is over
StepsExhausted(i, sequence_steps) == i > Len(sequence_steps)

\* (a failure report that leaves failed_at_scenario at its default)
SequenceFailedUnnamed(sequence_name, step_scenario, step_result, scenario_results) ==
    SequenceResult(FALSE, sequence_name,
                   <<"Sequence failed at scenario", step_scenario>> \o step_result.message,
                   scenario_results, "None")

\* the SequenceResult of a sequence stopped at step_scenario
SequenceFailed(sequence_name, step_scenario, step_result, scenario_results) ==
    SequenceResult(FALSE, sequence_name,
                   <<"Sequence failed at scenario", step_scenario>> \o step_result.message,
                   scenario_results, step_scenario)

execute_scenario_sequence ==
    /\ \/ /\ Running("execute_scenario_sequence", "start")
          /\ IF Top.arg.sequence_name \notin DOMAIN sequences_config
             THEN Return(SequenceResult(FALSE, Top.arg.sequence_name, <<"Sequence not found">>,
                                        <<>>, "configuration_missing"),
                         Progress(0, <<>>))
             ELSE Goto("loop", Progress(1, <<>>))
       \/ /\ Running("execute_scenario_sequence", "loop")
          /\ LET sequence_steps == sequences_config[Top.arg.sequence_name].sequence
                 i == Top.loc.i
             IN  IF StepsExhausted(i, sequence_steps)
                 THEN Return(SequenceResult(TRUE, Top.arg.sequence_name,
                                            <<"All scenarios successful">>,
                                            Top.loc.scenario_results, "None"),
                             Top.loc)
                 ELSE IF ~StepNamesScenario(sequence_steps[i])
                 THEN Goto("loop", [Top.loc EXCEPT !.i = i + 1])
                 ELSE Call("stepped", Top.loc,
                           Frame("execute_single_scenario",
                                 [scenario_name |-> sequence_steps[i].scenario]))
       \/ /\ Running("execute_scenario_sequence", "stepped")
          /\ LET sequence_steps == sequences_config[Top.arg.sequence_name].sequence
                 step_scenario == sequence_steps[Top.loc.i].scenario
                 scenario_results == Append(Top.loc.scenario_results, ret)
             IN  IF StepFailed(ret)
                 THEN Return(SequenceFailed(Top.arg.sequence_name, step_scenario, ret,
                                            scenario_results),
                             Progress(Top.loc.i, scenario_results))
                 ELSE Goto("loop", Progress(Top.loc.i + 1, scenario_results))
    /\ UNCHANGED <<serial_conn, transmission_log, config_loaded, codecVars, safetyVars>>

-----------------------------------------------------------------------------
(* Scenario Orchestrator and command line: running a test on a connection *)

\* a test selected by name: a scenario, a sequence (named by its listing) or
\* a file of bytecode to flash
Test(kind, name) == [kind |-> kind, name |-> name]

\* the operation that runs the test, if the configuration knows it
TestFound(test) ==
    CASE test.kind = "scenario" -> test.name \in DOMAIN scenarios_config
      [] test.kind = "sequence" -> test.name \in DOMAIN sequences_config
      [] test.kind = "flash"    -> TRUE

TestFrame(test) ==
    CASE test.kind = "scenario" ->
             Frame("execute_single_scenario", [scenario_name |-> test.name])
      [] test.kind = "sequence" ->
             Frame("execute_scenario_sequence", [sequence_name |-> test.name])
      [] test.kind = "flash" ->
             Frame("execute_complete_protocol", [n |-> test.name])

\* success of a ScenarioResult or a SequenceResult, or the plain bool
Succeeded(result) == IF result.t = "bool" THEN result.v ELSE result.success

\* run_oracle_test: setup_protocol_connection returns what connect returned
\* and False ends the test at once; cleanup_connection (disconnect) is the
\* finally block around the test
run_oracle_test ==
    /\ \/ /\ Running("run_oracle_test", "start")
          /\ \E outcome \in ConnectOutcomes :
               /\ serial_conn' = outcome.serial_conn
               /\ IF ~outcome.connected THEN Return(Bool(FALSE), NoLoc)
                  ELSE IF TestFound(Top.arg) THEN Call("ran", NoLoc, TestFrame(Top.arg))
                  ELSE Inlined("ran", NoLoc, "not_found", Bool(FALSE))
       \/ /\ Running("run_oracle_test", "ran")
          /\ serial_conn' = "None"
          /\ Return(Bool(Succeeded(ret)), NoLoc)
    /\ UNCHANGED <<transmission_log, config_loaded, codecVars, safetyVars>>

ExitCodeZero(v) == [t |-> "int", v |-> 0]

ExitCode(v) == [t |-> "int", v |-> v]

\* what main knows when it returns: whether the test ran to its end, the
\* result it returned, and whether an exception or an interrupt was raised
Ran(ran, result, raised) == [ran |-> ran, result |-> result, raised |-> raised]

\* oracle_cli.main with --scenario, --sequence or --flash: the configuration
\* is loaded, the file to flash is read, the connection is set up, the test
\* runs inside try/finally; formatting and printing the result or the cleanup
\* may raise, which the handlers around the test turn into exit code 1
main ==
    /\ \/ /\ Running("main", "start")
          /\ \E loaded \in BOOLEAN :
               /\ config_loaded' = loaded
               /\ IF loaded THEN Goto("loaded", NoLoc)
                  ELSE Return(ExitCode(1), Ran(FALSE, NoRet, FALSE))
          /\ UNCHANGED serial_conn
       \/ /\ Running("main", "loaded")
          /\ \/ /\ Top.arg.kind = "flash"
                /\ Return(ExitCode(1), Ran(FALSE, NoRet, FALSE))
                /\ UNCHANGED serial_conn
             \/ \E outcome \in ConnectOutcomes :
                  /\ serial_conn' = outcome.serial_conn
                  /\ IF ~outcome.connected
                     THEN Return(ExitCode(1), Ran(FALSE, NoRet, FALSE))
                     ELSE Call("ran", NoLoc, TestFrame(Top.arg))
          /\ UNCHANGED config_loaded
       \/ /\ Running("main", "ran")
          /\ serial_conn' = "None"
          /\ \E raised \in BOOLEAN :
               Return(ExitCode(IF ~raised /\ ret.success THEN 0 ELSE 1),
                      Ran(TRUE, ret, raised))
          /\ UNCHANGED config_loaded
    /\ UNCHANGED <<transmission_log, codecVars, safetyVars>>

\* Ctrl-C while the test of main runs: the exception passes through every
\* activation, the finally block cleans up the connection and the handler of
\* main returns 1
KeyboardInterrupt ==
    /\ Len(stack) > 1
    /\ stack[1].proc = "main"
    /\ stack' = <<>>
    /\ serial_conn' = "None"
    /\ ret' = ExitCode(1)
    /\ done' = [proc |-> "main", arg |-> stack[1].arg, loc |-> Ran(FALSE, NoRet, TRUE),
                base |-> stack[1].base]
    /\ UNCHANGED <<transmission_log, config_loaded, codecVars, safetyVars>>

-----------------------------------------------------------------------------
(* The operations a caller of the library can start *)

\* the sizes of the data a caller passes: one that fits a frame and one whose
\* serialized request is larger than a frame payload may be
DataLengths == {256, BOOTLOADER_MAX_PAYLOAD_SIZE}

PublicCalls ==
    {Frame("execute_handshake", NoArg), Frame("execute_verify_flash", NoArg)}
    \cup {Frame("execute_prepare_flash", [n |-> n]) : n \in DataLengths}
    \cup {Frame("execute_data_transfer", [n |-> n]) : n \in DataLengths}
    \cup {Frame("execute_complete_protocol", [n |-> n]) : n \in DataLengths}
    \cup {Frame(run_error_scenario(name), NoArg) :
            name \in {"timeout_session", "timeout_handshake",
                      "crc_frame_corruption", "partial_frame_timeout"}}
    \cup {Frame("validate_scenario", [level |-> level]) :
            level \in {"basic", "recovery_handshake", "recovery_protocol",
                       "complete_protocol", "paranoid"}}
    \cup {Frame("execute_single_scenario", [scenario_name |-> name]) : name \in ScenarioNames}

SequenceCalls ==
    {Frame("execute_scenario_sequence", [sequence_name |-> name]) :
        name \in StepLists \cup {UnknownSequence}}

\* a caller starts one of calls on an idle client
Start(calls) ==
    /\ stack = <<>>
    /\ Len(transmission_log) <= MaxPriorLog
    /\ \E call \in calls : stack' = <<call>>
    /\ ret' = NoRet
    /\ done' = NoDone
    /\ UNCHANGED <<serial_conn, transmission_log, config_loaded, codecVars, safetyVars>>

Invoke == Start(PublicCalls)

InvokeSequence == Start(SequenceCalls)

-----------------------------------------------------------------------------
(* Specification of the client, the injector and the orchestrator *)

Init ==
    /\ serial_conn = "None"
    /\ transmission_log = <<>>
    /\ config_loaded = FALSE
    /\ stack = <<>>
    /\ ret = NoRet
    /\ done = NoDone
    /\ payload = <<>>
    /\ built = <<>>
    /\ wire = <<>>
    /\ decoded = NothingDecoded
    /\ state = "IDLE"
    /\ on_line = <<>>
    /\ decoder_calls = <<>>
    /\ backup_stack = <<>>
    /\ checksums = NoChecksums

Next ==
    \/ connect
    \/ disconnect
    \/ load_scenarios
    \/ Invoke
    \/ send_raw_frame
    \/ receive_response
    \/ execute_handshake
    \/ execute_prepare_flash
    \/ execute_data_transfer
    \/ execute_verify_flash
    \/ execute_complete_protocol
    \/ inject_timeout_session
    \/ inject_timeout_handshake
    \/ inject_crc_frame_corruption
    \/ inject_partial_frame_timeout
    \/ validate_scenario
    \/ execute_single_scenario

Spec == Init /\ [][Next]_vars

-----------------------------------------------------------------------------
(* Specification of the orchestrator running scenario sequences *)

NextSequence ==
    \/ connect
    \/ disconnect
    \/ load_scenarios
    \/ InvokeSequence
    \/ send_raw_frame
    \/ receive_response
    \/ execute_handshake
    \/ inject_crc_frame_corruption
    \/ validate_scenario
    \/ execute_single_scenario
    \/ execute_scenario_sequence

SpecSequence == Init /\ [][NextSequence]_vars

-----------------------------------------------------------------------------
(* Specification of single scenarios beside the flash safety net *)

ScenarioCalls ==
    {Frame("execute_single_scenario", [scenario_name |-> name]) : name \in ScenarioNames}

InvokeScenario == Start(ScenarioCalls)

NextSafety ==
    \/ connect
    \/ disconnect
    \/ load_scenarios
    \/ create_backup
    \/ restore_backup
    \/ clear_backups
    \/ InvokeScenario
    \/ send_raw_frame
    \/ receive_response
    \/ execute_handshake
    \/ execute_prepare_flash
    \/ execute_data_transfer
    \/ execute_verify_flash
    \/ execute_complete_protocol
    \/ inject_timeout_session
    \/ inject_timeout_handshake
    \/ inject_crc_frame_corruption
    \/ inject_partial_frame_timeout
    \/ validate_scenario
    \/ execute_single_scenario

SpecSafety == Init /\ [][NextSafety]_vars

-----------------------------------------------------------------------------
(* Specification of the orchestrator called with scenario and sequence names *)

NextOrchestrator ==
    \/ connect
    \/ disconnect
    \/ load_scenarios
    \/ InvokeScenario
    \/ InvokeSequence
    \/ send_raw_frame
    \/ receive_response
    \/ execute_handshake
    \/ execute_prepare_flash
    \/ execute_data_transfer
    \/ execute_verify_flash
    \/ execute_complete_protocol
    \/ inject_timeout_session
    \/ inject_timeout_handshake
    \/ inject_crc_frame_corruption
    \/ inject_partial_frame_timeout
    \/ validate_scenario
    \/ execute_single_scenario
    \/ execute_scenario_sequence

SpecOrchestrator == Init /\ [][NextOrchestrator]_vars

-----------------------------------------------------------------------------
(* Specification of tests run on a connection of their own *)

TestCalls ==
    {Frame("run_oracle_test", Test("scenario", name)) : name \in ScenarioNames}
    \cup {Frame("run_oracle_test", Test("sequence", name)) :
            name \in StepLists \cup {UnknownSequence}}

MainCalls ==
    {Frame("main", Test("scenario", name)) : name \in ScenarioNames}
    \cup {Frame("main", Test("sequence", name)) : name \in StepLists \cup {UnknownSequence}}
    \cup {Frame("main", Test("flash", n)) : n \in DataLengths}

InvokeTest == Start(TestCalls)

\* the command line starts with a runner and a client of its own
InvokeMain ==
    /\ serial_conn = "None"
    /\ ~config_loaded
    /\ Start(MainCalls)

NextRunner ==
    \/ connect
    \/ disconnect
    \/ load_scenarios
    \/ InvokeTest
    \/ InvokeMain
    \/ send_raw_frame
    \/ receive_response
    \/ execute_handshake
    \/ execute_prepare_flash
    \/ execute_data_transfer
    \/ execute_verify_flash
    \/ execute_complete_protocol
    \/ inject_timeout_session
    \/ inject_timeout_handshake
    \/ inject_crc_frame_corruption
    \/ inject_partial_frame_timeout
    \/ validate_scenario
    \/ execute_single_scenario
    \/ execute_scenario_sequence
    \/ run_oracle_test
    \/ main
    \/ KeyboardInterrupt

SpecRunner == Init /\ [][NextRunner]_vars

-----------------------------------------------------------------------------
(* Specification of the client against a device that accepts every request *)

\* serial.write takes every frame whole
send_raw_frame_whole == Written({"all"})

receive_response_accepted == Answered(TRUE)

NextAccepting ==
    \/ connect
    \/ disconnect
    \/ load_scenarios
    \/ Invoke
    \/ send_raw_frame_whole
    \/ receive_response_accepted
    \/ execute_handshake
    \/ execute_prepare_flash
    \/ execute_data_transfer
    \/ execute_verify_flash
    \/ execute_complete_protocol
    \/ inject_timeout_session
    \/ inject_timeout_handshake
    \/ inject_crc_frame_corruption
    \/ inject_partial_frame_timeout
    \/ validate_scenario
    \/ execute_single_scenario

SpecAccepting == Init /\ [][NextAccepting]_vars

-----------------------------------------------------------------------------
(* Specification of the frame codec on a byte stream *)

\* payload bytes of the model: the three bytes build_frame escapes, what
\* two of them are escaped to, and two ordinary bytes
PayloadBytes == {0, 65, 93, 94, FRAME_ESCAPE, BOOTLOADER_FRAME_START, BOOTLOADER_FRAME_END}

Payloads == UNION {[1..n -> PayloadBytes] : n \in 0..MaxLen}

\* the caller builds the frame of a payload
BuildFrame ==
    /\ built = <<>>
    /\ wire = <<>>
    /\ \E data \in Payloads :
         /\ ~PayloadTooLarge(Len(data))
         /\ payload' = data
         /\ built' = build_frame(data)
    /\ UNCHANGED <<wire, decoded, streamVars, checksumVars, clientVars, safetyVars>>

\* the frame is put on the line the decoder reads
TransmitFrame ==
    /\ built # <<>>
    /\ wire = <<>>
    /\ decoded = NothingDecoded
    /\ wire' = built
    /\ UNCHANGED <<payload, built, decoded, streamVars, checksumVars, clientVars, safetyVars>>

\* ProtocolClient.receive_response reads the line
ReceiveFrame ==
    /\ wire # <<>>
    /\ decoded = NothingDecoded
    /\ decoded' = [input |-> wire, result |-> receive_response_on(wire)]
    /\ wire' = receive_response_on(wire).rest
    /\ UNCHANGED <<payload, built, streamVars, checksumVars, clientVars, safetyVars>>

\* the exchange is over: frame and result are dropped, and
\* flush_serial_buffers (reset_input_buffer) empties the line before the next
FlushInput ==
    /\ decoded # NothingDecoded \/ decoder_calls # <<>>
    /\ payload' = <<>>
    /\ built' = <<>>
    /\ wire' = <<>>
    /\ decoded' = NothingDecoded
    /\ on_line' = <<>>
    /\ decoder_calls' = <<>>
    /\ UNCHANGED <<state, checksumVars, clientVars, safetyVars>>

NextCodec == BuildFrame \/ TransmitFrame \/ ReceiveFrame \/ FlushInput

SpecCodec == Init /\ [][NextCodec]_vars

-----------------------------------------------------------------------------
(* Specification of the two decoders on a stream that carries more than a frame *)

\* line noise before a frame: how many bytes, and which byte
GarbageLengths == {0, 1, 10, 255}
GarbageBytes == {0, 85}

Garbage(n, byte) == [i \in 1..n |-> byte]

\* what a sender puts on the line
Chunks ==
    {[kind |-> kind, n |-> 0, byte |-> 0] : kind \in {"frame", "corrupted", "partial"}}
    \cup {[kind |-> "garbage", n |-> n, byte |-> IF n = 0 THEN 0 ELSE byte] :
            n \in GarbageLengths, byte \in GarbageBytes}

ChunkBytes(chunk) ==
    CASE chunk.kind = "frame"     -> built
      [] chunk.kind = "corrupted" -> corrupt_frame_crc_bytes(built)
      [] chunk.kind = "partial"   -> partial_frame
      [] chunk.kind = "garbage"   -> Garbage(chunk.n, chunk.byte)

Decoders == {"receive_response", "parse_frame"}

DecodeCalls == SelectSeq(decoder_calls, LAMBDA call : call.op \in Decoders)

\* the frame comes alone, or after noise, after a corrupted copy of itself
\* or after a frame that stopped with its length field; a frame that stopped
\* is followed by silence until a decoder has given up on it
SendOnStream ==
    /\ built # <<>>
    /\ decoded = NothingDecoded
    /\ \E chunk \in Chunks :
         /\ \/ on_line = <<>>
            \/ /\ Len(on_line) = 1
               /\ on_line[1].kind # "frame"
               /\ chunk.kind = "frame"
               /\ on_line[1].kind = "partial" => decoder_calls # <<>>
         /\ on_line' = Append(on_line, chunk)
         /\ wire' = wire \o ChunkBytes(chunk)
    /\ UNCHANGED <<payload, built, decoded, state, decoder_calls, checksumVars, clientVars, safetyVars>>

\* one decoder call for each thing sent
Decoding(op, result) ==
    /\ Len(DecodeCalls) < Len(on_line)
    /\ decoder_calls' = Append(decoder_calls, [op |-> op, input |-> wire, result |-> result])
    /\ wire' = result.rest
    /\ UNCHANGED <<payload, built, decoded, on_line, checksumVars, clientVars, safetyVars>>

\* ProtocolClient.receive_response reads the line
ReceiveOnStream ==
    /\ Decoding("receive_response", receive_response_on(wire))
    /\ UNCHANGED state

\* UniversalFrameParser.parse_frame reads the line; no statement of it
\* assigns self.state
parse_frame ==
    /\ Decoding("parse_frame", parse_frame_on(wire))
    /\ UNCHANGED state

\* UniversalFrameParser.reset_parser, as parse_frame_with_retry calls it
\* after a decode
reset_parser ==
    /\ decoder_calls # <<>>
    /\ decoder_calls[Len(decoder_calls)].op \in Decoders
    /\ state' = "IDLE"
    /\ decoder_calls' = Append(decoder_calls, [op |-> "reset_parser", input |-> wire,
                               result |-> NotReceived("none", wire)])
    /\ UNCHANGED <<payload, built, wire, decoded, on_line, checksumVars, clientVars, safetyVars>>

NextStream ==
    \/ BuildFrame
    \/ SendOnStream
    \/ ReceiveOnStream
    \/ parse_frame
    \/ reset_parser
    \/ FlushInput

SpecStream == Init /\ [][NextStream]_vars

-----------------------------------------------------------------------------
(* Properties: scenario sequences (SpecSequence) *)

\* the steps of a listing that name a scenario; the loop skips the others
NamedSteps(steps) == SelectSeq(steps, LAMBDA step : step.kind \in {"str", "dict"})

StepNames(steps) == [k \in 1..Len(steps) |-> steps[k].scenario]

NamesOf(results) == [k \in 1..Len(results) |-> results[k].scenario_name]

AllSuccessful(results) == \A k \in 1..Len(results) : results[k].success

\* the listing of the sequence an activation of execute_scenario_sequence runs
ListingOf(activation) == SequenceCatalog[activation.arg.sequence_name].sequence

\* an activation of execute_scenario_sequence inside its loop: the results
\* it holds are those of the named steps before its position, in order, all
\* successful, and what runs above it is the scenario at its position
InOrderWhileAllPassed(j) ==
    LET steps == ListingOf(stack[j])
        loc == stack[j].loc
    IN  /\ AllSuccessful(loc.scenario_results)
        /\ NamesOf(loc.scenario_results) = StepNames(NamedSteps(SubSeq(steps, 1, loc.i - 1)))
        /\ j < Len(stack) =>
             /\ stack[j].pc = "stepped"
             /\ stack[j + 1].proc = "execute_single_scenario"
             /\ stack[j + 1].arg.scenario_name = steps[loc.i].scenario

\* a sequence that has just got an unsuccessful result from a scenario ends
\* with its next step, writing nothing to the transport
StopsAtFailure ==
    (Running("execute_scenario_sequence", "stepped") /\ ~ret.success)
        => (stack' = Below /\ transmission_log' = transmission_log)

\* C1. In execute_scenario_sequence the scenarios run in the order listed,
\* and once a scenario has returned an unsuccessful result no later scenario
\* of the sequence is executed: a scenario of the sequence runs only while
\* every earlier one has passed, and after a failure the sequence returns
\* without another transport exchange.
C1_FailFastInOrder ==
    /\ [](\A j \in 1..Len(stack) :
            (stack[j].proc = "execute_scenario_sequence" /\ stack[j].pc # "start")
                => InOrderWhileAllPassed(j))
    /\ [][StopsAtFailure]_vars

\* execute_scenario_sequence has returned from a configured sequence
SequenceReturned ==
    /\ stack = <<>>
    /\ done.proc = "execute_scenario_sequence"
    /\ ret.t = "SequenceResult"
    /\ done.loc.i >= 1

\* a sequence stopped at its second scenario with a third one still listed
C1_StoppedBeforeLaterScenario ==
    /\ SequenceReturned
    /\ ~ret.success
    /\ Len(ret.scenario_results) = 2
    /\ Len(NamedSteps(ListingOf(done))) = 3

\* C2. For a sequence whose k-th scenario is the first to fail, the
\* SequenceResult has success=false, failed_at_scenario is the name of the
\* k-th scenario, and there are exactly k ScenarioResults in sequence order,
\* the first k-1 successful and the last unsuccessful.
C2_FailedSequenceResult ==
    (SequenceReturned /\ (~ret.success \/ ~AllSuccessful(ret.scenario_results))) =>
        LET named == NamedSteps(ListingOf(done))
            results == ret.scenario_results
            k == Len(results)
        IN  /\ ~ret.success
            /\ k >= 1
            /\ k <= Len(named)
            /\ ret.failed_at_scenario = named[k].scenario
            /\ NamesOf(results) = StepNames(SubSeq(named, 1, k))
            /\ AllSuccessful(SubSeq(results, 1, k - 1))
            /\ ~results[k].success

\* three scenarios listed, the second fails: two results
C2_SecondOfThreeFailed ==
    /\ SequenceReturned
    /\ Len(NamedSteps(ListingOf(done))) = 3
    /\ Len(ret.scenario_results) = 2
    /\ ret.scenario_results[1].success
    /\ ~ret.scenario_results[2].success
    /\ ret.failed_at_scenario = ret.scenario_results[2].scenario_name

\* C3. execute_scenario_sequence returns success=true only if every scenario
\* named in the sequence was executed and succeeded; scenario_results then
\* holds one result per scenario of the sequence, in order, and
\* failed_at_scenario is unset.
C3_SuccessfulSequenceResult ==
    (SequenceReturned /\ ret.success) =>
        LET named == NamedSteps(ListingOf(done))
        IN  /\ Len(ret.scenario_results) = Len(named)
            /\ NamesOf(ret.scenario_results) = StepNames(named)
            /\ AllSuccessful(ret.scenario_results)
            /\ ret.failed_at_scenario = "None"

\* a sequence of two scenarios and a skipped step, all passed
C3_AllPassed ==
    /\ SequenceReturned
    /\ ret.success
    /\ Len(ListingOf(done)) = 3
    /\ Len(ret.scenario_results) = 2

-----------------------------------------------------------------------------
(* Specification of the two decoders on a frame that arrives damaged *)

\* the largest value a two-byte length field can state
MAX_LENGTH_FIELD == 65535

\* what the line can do to a frame: nothing, a CRC byte inverted, the end
\* marker replaced, both, or a length field that states the maximum or more
Damages ==
    {[kind |-> kind, n |-> 0, byte |-> 0] : kind \in {"intact", "crc"}}
    \cup {[kind |-> kind, n |-> 0, byte |-> byte] :
            kind \in {"end", "crc_and_end"}, byte \in {0, BOOTLOADER_FRAME_START}}
    \cup {[kind |-> "length", n |-> n, byte |-> 0] :
            n \in {BOOTLOADER_MAX_PAYLOAD_SIZE, BOOTLOADER_MAX_PAYLOAD_SIZE + 1,
                   MAX_LENGTH_FIELD}}

WithEndMarker(frame, byte) == [frame EXCEPT ![Len(frame)] = byte]

WithLengthField(frame, length) ==
    [frame EXCEPT ![2] = PackBE16(length)[1], ![3] = PackBE16(length)[2]]

Damaged(frame, damage) ==
    CASE damage.kind = "intact"      -> frame
      [] damage.kind = "crc"         -> corrupt_frame_crc_bytes(frame)
      [] damage.kind = "end"         -> WithEndMarker(frame, damage.byte)
      [] damage.kind = "crc_and_end" ->
            WithEndMarker(corrupt_frame_crc_bytes(frame), damage.byte)
      [] damage.kind = "length"      -> WithLengthField(frame, damage.n)

\* the frame arrives, damaged or not, on a quiet line
ArriveDamaged ==
    /\ built # <<>>
    /\ on_line = <<>>
    /\ decoded = NothingDecoded
    /\ \E damage \in Damages :
         /\ on_line' = <<damage>>
         /\ wire' = Damaged(built, damage)
    /\ UNCHANGED <<payload, built, decoded, state, decoder_calls, checksumVars, clientVars, safetyVars>>

\* what a decoder call hands to its caller: receive_response the payload or
\* None (the reason goes to the log only), parse_frame a ParseResult with the
\* error text
ReturnedToCaller(op, result) ==
    [some |-> result.some, data |-> result.data,
     error |-> IF op = "receive_response" THEN "None" ELSE result.error]

NextDamaged ==
    \/ BuildFrame
    \/ ArriveDamaged
    \/ ReceiveOnStream
    \/ parse_frame
    \/ FlushInput

SpecDamaged == Init /\ [][NextDamaged]_vars

-----------------------------------------------------------------------------
(* Specification of the checksum engine applied to byte strings *)

\* a caller asks for the CRC16 of some bytes
Crc16Of ==
    /\ checksums = NoChecksums
    /\ \E data \in Payloads :
         checksums' = [data |-> data, crc16 |-> calculate_crc16_ccitt(data), crc32 |-> <<>>]
    /\ UNCHANGED <<payload, built, wire, decoded, streamVars, clientVars, safetyVars>>

\* a caller asks for the CRC32 of the bytes whose CRC16 it has
Crc32Of ==
    /\ checksums # NoChecksums
    /\ checksums.crc32 = <<>>
    /\ checksums' = [checksums EXCEPT !.crc32 = _calculate_crc32(checksums.data)]
    /\ UNCHANGED <<payload, built, wire, decoded, streamVars, clientVars, safetyVars>>

NextChecksum ==
    \/ Crc16Of
    \/ Crc32Of

SpecChecksum == Init /\ [][NextChecksum]_vars

-----------------------------------------------------------------------------
(* Properties: scenarios, sessions and injectors (Spec) *)

\* the activation of proc has returned and its caller has not gone on yet
JustReturned(proc) == done.proc = proc /\ ret # NoRet

Passed(result) == result.t = "ProtocolResult" /\ result.success

\* C4. execute_single_scenario returns success=true if and only if both the
\* scenario action returned success and the post-scenario validation at the
\* configured validation_level returned success.
C4_ScenarioSuccessIffBoth ==
    JustReturned("execute_single_scenario") =>
        (ret.success <=> (Passed(done.loc.result) /\ Passed(done.loc.validation_result)))

\* the action passed and the validation did not
C4_ActionPassedValidationFailed ==
    /\ JustReturned("execute_single_scenario")
    /\ Passed(done.loc.result)
    /\ done.loc.validation_result.t = "ProtocolResult"
    /\ ~done.loc.validation_result.success
    /\ ~ret.success

PhaseOperations ==
    <<"execute_handshake", "execute_prepare_flash", "execute_data_transfer",
      "execute_verify_flash">>

PhaseRequests == <<"handshake", "prepare", "data", "verify">>

PhaseFailureMessages ==
    <<"Handshake failed", "Prepare failed", "Data transfer failed", "Verify failed">>

\* the position of the phase a session waits for at pc
PhaseAt(pc) == CHOOSE k \in 1..4 : PhaseRequests[k] = pc

ResultsOf(loc) == IF loc = NoLoc THEN <<>> ELSE loc.results

\* the requests written to the transport since an activation started
RequestsSince(base) ==
    [k \in 1..(Len(transmission_log) - base) |->
        transmission_log[base + k].frame_hex_preview.req]

\* at most the first k phases have written a frame, each its own, in order
OnlyFirstPhasesSent(base, k) ==
    LET sent == RequestsSince(base)
    IN  /\ Len(sent) <= k
        /\ \A m \in 1..Len(sent) : sent[m] = PhaseRequests[m]

\* a session waiting for its k-th phase: the k-1 earlier phases returned
\* success, the operation above it is the k-th phase, and no later phase has
\* written a frame
PhasesInOrder(j) ==
    LET k == PhaseAt(stack[j].pc)
        results == ResultsOf(stack[j].loc)
    IN  /\ Len(results) = k - 1
        /\ AllSuccessful(results)
        /\ j < Len(stack) => stack[j + 1].proc = PhaseOperations[k]
        /\ Len(RequestsSince(stack[j].base)) >= k - 1
        /\ OnlyFirstPhasesSent(stack[j].base, k)

\* a session that gets an unsuccessful result from its k-th phase returns
\* with its next step: success=false, the message names the phase, nothing
\* more is written
ShortCircuits ==
    (/\ stack # <<>>
     /\ Top.proc = "execute_complete_protocol"
     /\ Top.pc # "start"
     /\ ~ret.success)
        => /\ stack' = Below
           /\ ~ret'.success
           /\ Head(ret'.message) = PhaseFailureMessages[PhaseAt(Top.pc)]
           /\ transmission_log' = transmission_log

\* C5. execute_complete_protocol issues the phases strictly in the order
\* handshake, prepare, data transfer, verify; a phase is started only after
\* every earlier phase returned success, and on the first failing phase the
\* session returns success=false with a message naming that phase, sending
\* no frame of any later phase.
C5_PhasesInOrderShortCircuit ==
    /\ [](\A j \in 1..Len(stack) :
            (stack[j].proc = "execute_complete_protocol" /\ stack[j].pc # "start")
                => PhasesInOrder(j))
    /\ [](JustReturned("execute_complete_protocol") =>
            LET results == done.loc.results
                k == Len(results)
            IN  /\ k \in 1..4
                /\ AllSuccessful(SubSeq(results, 1, k - 1))
                /\ OnlyFirstPhasesSent(done.base, k)
                /\ ret.success <=> (k = 4 /\ results[k].success)
                /\ ~ret.success => Head(ret.message) = PhaseFailureMessages[k])
    /\ [][ShortCircuits]_vars

\* a session that failed in prepare after both frames were written
C5_FailedAtPrepare ==
    /\ JustReturned("execute_complete_protocol")
    /\ Len(done.loc.results) = 2
    /\ ~ret.success
    /\ Head(ret.message) = "Prepare failed"
    /\ RequestsSince(done.base) = <<"handshake", "prepare">>

\* C6. Against a device that accepts all four phases, run_session with a
\* 256-byte payload returns success with 256 bytes transferred and its result
\* records exactly 4 transmission entries, in the order handshake, prepare,
\* data, verify.
C6_AcceptedSessionSucceeds ==
    (/\ stack = <<>>
     /\ JustReturned("execute_complete_protocol")
     /\ done.arg.n = 256
     /\ serial_conn = "open")
        => /\ ret.success
           /\ ret.data.test_data_size = 256
           /\ ret.data.frame_count = 4
           /\ [k \in 1..4 |-> ret.data.transmission_log[k].frame_hex_preview.req]
                = PhaseRequests

\* a phase operation has returned after reading a response
PhaseAnswered ==
    /\ \E k \in 1..4 : JustReturned(PhaseOperations[k])
    /\ done.loc.response.some

\* C7. In every phase operation, a response whose sequence_id differs from
\* the sequence_id of the request just sent makes the phase return
\* success=false.
C7_SequenceIdMismatchFails ==
    (/\ PhaseAnswered
     /\ done.loc.response.dec
     /\ done.loc.response.seq # done.loc.request.seq_id)
        => ~ret.success

\* C8. A fault injection whose recovery check fails is reported as failed:
\* inject_crc_frame_corruption and inject_partial_frame_timeout return
\* success=false whenever the clean handshake sent after the fault does not
\* succeed.
C8_FailedRecoveryFailsInjection ==
    (/\ \/ JustReturned("inject_crc_frame_corruption")
        \/ JustReturned("inject_partial_frame_timeout")
     /\ done.loc.recovery.t = "ProtocolResult"
     /\ ~done.loc.recovery.success)
        => ~ret.success

-----------------------------------------------------------------------------
(* Properties: frame codec (SpecCodec) *)

\* C9. For every payload of length 0..1024, decoding the frame produced by
\* build_frame returns exactly that payload, including payloads containing
\* 0x7E, 0x7F or 0x7D at any position.
C9_RoundTrip ==
    (decoded # NothingDecoded /\ decoded.input = built)
        => (decoded.result.some /\ decoded.result.data = payload)

\* the escaping as the frame format states it
RECURSIVE EscapedAsStated(_)
EscapedAsStated(data) ==
    IF data = <<>> THEN <<>>
    ELSE (IF Head(data) \in {125, 126, 127}
          THEN <<125, Head(data) - 32>>
          ELSE <<Head(data)>>) \o EscapedAsStated(Tail(data))

\* C10. For every payload of at most 1024 bytes, build_frame emits 0x7E, the
\* big-endian 16-bit pre-escape payload length, the payload with each
\* 0x7E/0x7F/0x7D byte replaced by 0x7D followed by (byte XOR 0x20) and every
\* other byte unchanged, the big-endian CRC16 of length||unescaped payload,
\* then 0x7F; the escaped payload region never contains 0x7E or 0x7F.
C10_FrameLayout ==
    built # <<>> =>
        LET n == Len(payload)
            last == Len(built)
            region == SubSeq(built, 4, last - 3)
            crc == calculate_crc16_ccitt(<<n \div 256, n % 256>> \o payload)
        IN  /\ last >= 6
            /\ built[1] = 126
            /\ built[2] = n \div 256
            /\ built[3] = n % 256
            /\ region = EscapedAsStated(payload)
            /\ \A i \in 1..Len(region) : region[i] \notin {126, 127}
            /\ built[last - 2] = crc \div 256
            /\ built[last - 1] = crc % 256
            /\ built[last] = 127

\* a frame built of a payload holding all three escaped bytes
C10_BuiltWithEscapes ==
    /\ built # <<>>
    /\ Len(payload) = 3
    /\ {payload[i] : i \in 1..3} = {125, 126, 127}

-----------------------------------------------------------------------------
(* Properties: the decoders on a stream (SpecStream) *)

FirstDecode == decoder_calls[1]

\* the decoder call made for the second thing sent
SecondDecode == DecodeCalls[2]

DecodedPayload(call) == call.result.some /\ call.result.data = payload

CrcMismatchErrors == {"crc mismatch", "CRC mismatch"}
ReadTimeoutErrors == {"incomplete payload", "Incomplete payload"}

\* the first decoder call found both things on the line
BothOnLine(kind) ==
    /\ Len(on_line) = 2
    /\ on_line[1].kind = kind
    /\ decoder_calls # <<>>
    /\ FirstDecode.input = ChunkBytes(on_line[1]) \o built

\* C11: a stream of N garbage bytes (N = 0, 1, 10 or 255) followed by one
\* valid frame decodes to the payload of that frame.
C11_GarbageThenFrameDecodes ==
    BothOnLine("garbage") => DecodedPayload(FirstDecode)

\* C12: the decode of a frame with one CRC byte flipped fails with a CRC
\* mismatch and consumes exactly the bytes of the corrupted frame, and the
\* valid frame that follows it on the stream is then decoded.
C12_CorruptedThenValid ==
    BothOnLine("corrupted") =>
        /\ ~FirstDecode.result.some
        /\ FirstDecode.result.error \in CrcMismatchErrors
        /\ FirstDecode.result.rest = built
        /\ Len(DecodeCalls) = 2 => DecodedPayload(SecondDecode)

\* C13: when only the start marker and the length field arrive, the decode
\* fails with a read timeout and returns no partial payload, and a valid
\* frame that arrives afterwards is decoded by the next decode.
C13_PartialThenValid ==
    (on_line # <<>> /\ on_line[1].kind = "partial" /\ decoder_calls # <<>>) =>
        /\ ~FirstDecode.result.some
        /\ FirstDecode.result.error \in ReadTimeoutErrors
        /\ FirstDecode.result.data = <<>>
        /\ (Len(on_line) = 2 /\ Len(DecodeCalls) = 2) => DecodedPayload(SecondDecode)

\* C14: a parse that succeeds leaves the parser in state Complete, a parse
\* that fails leaves it in the terminal state Failed, and from Failed no
\* decode succeeds until the parser is reset.
C14_FailedUntilReset ==
    \A i \in 1..Len(decoder_calls) :
        decoder_calls[i].op = "parse_frame" =>
            /\ i = Len(decoder_calls) =>
                    state = (IF decoder_calls[i].result.some THEN "COMPLETE" ELSE "FAILED")
            /\ (/\ ~decoder_calls[i].result.some
                /\ i < Len(decoder_calls)
                /\ decoder_calls[i + 1].op = "parse_frame")
                   => ~decoder_calls[i + 1].result.some

-----------------------------------------------------------------------------
(* Properties: injectors, verification and connections (Spec) *)

\* C15. inject_timeout_session returns success exactly when the handshake
\* succeeded and the prepare sent after the idle delay did not; when the
\* device accepts the late prepare it returns success=false and reports that
\* the timeout did not occur.
C15_SessionTimeoutOutcome ==
    JustReturned("inject_timeout_session") =>
        LET results == done.loc.results
        IN  /\ ret.success <=>
                  (Len(results) = 2 /\ results[1].success /\ ~results[2].success)
            /\ (Len(results) = 2 /\ results[2].success) =>
                  /\ ~ret.success
                  /\ ret.message = <<"Session timeout did not occur as expected">>

\* the device accepted the late prepare and the injection is reported failed
C15_LatePrepareAccepted ==
    /\ JustReturned("inject_timeout_session")
    /\ Len(done.loc.results) = 2
    /\ done.loc.results[1].success
    /\ done.loc.results[2].success
    /\ ~ret.success

InjectorOperations ==
    {"inject_timeout_session", "inject_timeout_handshake",
     "inject_crc_frame_corruption", "inject_partial_frame_timeout"}

PhaseOperationSet == {PhaseOperations[k] : k \in 1..4}

\* a write of the activation that finished last failed or fell short
WriteFailedSince(base) ==
    \E j \in DOMAIN transmission_log : j > base /\ ~transmission_log[j].success

\* C18. Every phase operation and every injector operation returns a
\* ProtocolResult for every outcome; with the transport closed, after a
\* failed or short write and, for a phase, on a missing or undecodable
\* response, that result has success=false.
C18_FailureIsAResult ==
    \A op \in PhaseOperationSet \cup InjectorOperations :
        JustReturned(op) =>
            /\ ret.t = "ProtocolResult"
            /\ serial_conn # "open" => ~ret.success
            /\ WriteFailedSince(done.base) => ~ret.success
            /\ (op \in PhaseOperationSet
                    /\ (~done.loc.response.some \/ ~done.loc.response.dec))
                  => ~ret.success

\* C19. execute_verify_flash returns success only when the response is an
\* Ack with success=true; every other response gives success=false.
C19_VerifyOnlyOnAck ==
    (JustReturned("execute_verify_flash") /\ ret.success) =>
        /\ done.loc.response.some
        /\ done.loc.response.dec
        /\ done.loc.response.kind = "ack"
        /\ done.loc.response.ok

\* C20. The verify request of a session states as total_data_length the
\* length of the data the session passed to prepare and data transfer.
C20_VerifyStatesSessionLength ==
    (/\ JustReturned("execute_verify_flash")
     /\ stack # <<>>
     /\ Top.proc = "execute_complete_protocol")
        => done.loc.request.data_length = Top.arg.n

\* the response is an Ack with success=true
AckedTrue(response) ==
    response.some /\ response.dec /\ response.kind = "ack" /\ response.ok

\* C21. execute_prepare_flash and execute_data_transfer each return success
\* exactly when the decoded response is an Ack with success=true; an Ack with
\* success=false, another response type, an undecodable payload and no
\* response each give success=false.
C21_AckDecidesPrepareAndData ==
    \A op \in {"execute_prepare_flash", "execute_data_transfer"} :
        JustReturned(op) => (ret.success <=> AckedTrue(done.loc.response))

\* prepare got an Ack with success=false and failed
C21_PrepareRefused ==
    /\ JustReturned("execute_prepare_flash")
    /\ done.loc.response.dec
    /\ done.loc.response.kind = "ack"
    /\ ~done.loc.response.ok
    /\ ~ret.success

\* C22. execute_handshake returns success=false whenever the response is not
\* the handshake variant or the frame or the message fails to decode; it
\* returns success only for a decodable response of the handshake variant.
C22_HandshakeOnlyOnVariant ==
    JustReturned("execute_handshake") =>
        (ret.success <=> /\ done.loc.response.some
                         /\ done.loc.response.dec
                         /\ done.loc.response.kind = "handshake")

\* the sequence ids the phases are stated to use
StatedSequenceId == [handshake |-> 1, prepare |-> 2, data |-> 3, verify |-> 4]

\* the sequence ids of the requests written since an activation started
SequenceIdsSince(base) ==
    [k \in 1..(Len(transmission_log) - base) |->
        transmission_log[base + k].frame_hex_preview.seq_id]

StrictlyIncreasing(ids) ==
    \A i, j \in DOMAIN ids : i < j => ids[i] < ids[j]

\* C23. Each request carries the sequence_id fixed for its phase
\* (handshake=1, prepare=2, data=3, verify=4), so within one session the
\* sequence ids of the frames written are strictly increasing and each
\* exchange is made under a higher sequence id than the one before it.
C23_SequenceIdsAdvance ==
    /\ \A j \in DOMAIN transmission_log :
          LET request == transmission_log[j].frame_hex_preview
          IN  request.req \in DOMAIN StatedSequenceId
                  => request.seq_id = StatedSequenceId[request.req]
    /\ \A j \in DOMAIN stack :
          stack[j].proc = "execute_complete_protocol"
              => /\ StrictlyIncreasing(SequenceIdsSince(stack[j].base))
                 /\ \A k \in DOMAIN SequenceIdsSince(stack[j].base) :
                       SequenceIdsSince(stack[j].base)[k] = k
    /\ JustReturned("execute_complete_protocol")
          => StrictlyIncreasing(SequenceIdsSince(done.base))

\* a session that ran its four exchanges under the sequence ids 1, 2, 3, 4
C23_FourExchanges ==
    /\ JustReturned("execute_complete_protocol")
    /\ ret.success
    /\ SequenceIdsSince(done.base) = <<1, 2, 3, 4>>

\* a phase operation that has the outcome of its response decode returns
\* with its next step: it neither writes nor decodes a second time
ReturnsAfterDecode ==
    (/\ stack # <<>>
     /\ Top.proc \in PhaseOperationSet
     /\ Top.pc = "received")
        => /\ stack' = Below
           /\ transmission_log' = transmission_log

\* C24. The protocol client never retries on its own: one call of a phase
\* operation writes at most one request frame and performs at most one
\* response decode, and a frame-decode or message-decode failure is returned
\* as that phase's failure.
C24_NoRetryFailureReturned ==
    /\ [](\A op \in PhaseOperationSet :
            JustReturned(op) =>
                /\ Len(transmission_log) - done.base <= 1
                /\ (~done.loc.response.some \/ ~done.loc.response.dec)
                      => ~ret.success)
    /\ [][ReturnsAfterDecode]_vars

\* C25. Post-scenario validation performs exactly the exchanges of its
\* level: basic checks only that the transport is open; recovery_handshake
\* passes iff one handshake succeeds; recovery_protocol passes iff handshake
\* and then prepare both succeed, and prepare is not attempted after a failed
\* handshake; complete_protocol passes iff a full four-phase session succeeds.
C25_ValidationByLevel ==
    JustReturned("validate_scenario") =>
        LET level == done.arg.level
            results == ResultsOf(done.loc)
            requests == RequestsSince(done.base)
        IN  CASE level = "recovery_handshake" ->
                   /\ Len(results) = 1
                   /\ ret.success <=> results[1].success
                   /\ requests \in {<<>>, <<"handshake">>}
              [] level = "recovery_protocol" ->
                   /\ Len(results) \in 1..2
                   /\ ret.success <=> (Len(results) = 2 /\ AllSuccessful(results))
                   /\ ~results[1].success => (Len(results) = 1 /\ requests \in {<<>>, <<"handshake">>})
                   /\ requests \in {<<>>, <<"handshake">>, <<"handshake", "prepare">>}
              [] level = "complete_protocol" ->
                   /\ Len(results) = 1
                   /\ ret.success <=> results[1].success
                   /\ ret.success => requests = PhaseRequests
                   /\ \A k \in DOMAIN requests : requests[k] = PhaseRequests[k]
              [] OTHER ->
                   /\ ret.success <=> serial_conn = "open"
                   /\ requests = <<>>

\* recovery_protocol validation that stopped at a failed handshake whose
\* frame was written
C25_NoPrepareAfterFailedHandshake ==
    /\ JustReturned("validate_scenario")
    /\ done.arg.level = "recovery_protocol"
    /\ RequestsSince(done.base) = <<"handshake">>
    /\ ~done.loc.results[1].success
    /\ ~ret.success

-----------------------------------------------------------------------------
(* Properties: names the configuration does not know (SpecOrchestrator) *)

\* the configuration in use lists no scenario of this name
UnknownScenario(name) == ~config_loaded \/ name \notin DOMAIN ScenarioCatalog

\* the configuration in use lists no sequence of this name
UnknownSequenceName(name) == ~config_loaded \/ name \notin DOMAIN SequenceCatalog

\* C26. An unknown scenario name makes execute_single_scenario return an
\* unsuccessful ScenarioResult, and an unknown sequence name makes
\* execute_scenario_sequence return an unsuccessful SequenceResult with an
\* empty result list; in both cases no frame is written to the transport and
\* the transmission log is unchanged.
C26_UnknownNameRejected ==
    /\ (JustReturned("execute_single_scenario") /\ UnknownScenario(done.arg.scenario_name))
          => /\ ret.t = "ScenarioResult"
             /\ ~ret.success
             /\ Len(transmission_log) = done.base
    /\ (JustReturned("execute_scenario_sequence")
            /\ UnknownSequenceName(done.arg.sequence_name))
          => /\ ret.t = "SequenceResult"
             /\ ~ret.success
             /\ ret.scenario_results = <<>>
             /\ Len(transmission_log) = done.base

\* a scenario name the loaded configuration does not list, asked for on an
\* open transport
C26_MissingScenarioOnOpenTransport ==
    /\ JustReturned("execute_single_scenario")
    /\ config_loaded
    /\ done.arg.scenario_name \notin DOMAIN ScenarioCatalog
    /\ serial_conn = "open"
    /\ ~ret.success

-----------------------------------------------------------------------------
(* Properties: scenarios and the flash safety net (SpecSafety) *)

\* a step of a running scenario, its first and its last included
ScenarioStep ==
    \/ stack # <<>> /\ stack[1].proc = "execute_single_scenario"
    \/ stack' # <<>> /\ stack'[1].proc = "execute_single_scenario"

-----------------------------------------------------------------------------
(* Properties: tests run on a connection of their own (SpecRunner) *)

\* C17. The orchestrator releases the transport connection on every exit
\* path: after run_oracle_test or the command line's run has returned, for
\* any outcome, the client is disconnected (serial_conn is None).
C17_DisconnectedAfterTest ==
    (JustReturned("run_oracle_test") \/ JustReturned("main")) => serial_conn = "None"

-----------------------------------------------------------------------------
(* Properties: the checksum engine (SpecChecksum) *)

\* C28. The CRC16 of the empty byte sequence is the initial value 0xFFFF and
\* the CRC32 of the empty sequence is the inverted initial value 0x00000000;
\* for every input the CRC16 lies in 0..0xFFFF and the CRC32 in
\* 0..0xFFFFFFFF (each 16-bit half in 0..0xFFFF).
C28_EmptyAndRange ==
    /\ checksums # NoChecksums =>
          /\ checksums.crc16 \in 0..65535
          /\ checksums.data = <<>> => checksums.crc16 = 65535
    /\ checksums.crc32 # <<>> =>
          /\ checksums.crc32[1] \in 0..65535
          /\ checksums.crc32[2] \in 0..65535
          /\ checksums.data = <<>> => checksums.crc32 = <<0, 0>>

\* both checksums of the empty sequence have been computed
C28_EmptyChecksummed ==
    /\ checksums.data = <<>>
    /\ checksums.crc16 = 65535
    /\ checksums.crc32 = <<0, 0>>

-----------------------------------------------------------------------------
(* Properties: the decoders on a damaged frame (SpecDamaged) *)

EndMarkerErrors == {"invalid end marker", "Invalid end marker"}

InvalidLengthErrors == {"invalid length", "Invalid payload length"}

DecodeOn(op, stream) ==
    IF op = "receive_response" THEN receive_response_on(stream) ELSE parse_frame_on(stream)

\* C29. Decode reports a CRC mismatch and an end-marker mismatch as distinct
\* error outcomes that the caller can tell apart; the end marker is checked
\* before the CRC, so a frame with both a wrong end marker and a wrong CRC is
\* reported as an end-marker error, never as a CRC mismatch.
C29_EndMarkerBeforeCrcDistinct ==
    \A k \in DOMAIN decoder_calls :
        LET call == decoder_calls[k]
            returned == ReturnedToCaller(call.op, call.result)
        IN  /\ on_line[1].kind = "crc_and_end" =>
                  /\ returned.error \in EndMarkerErrors
                  /\ returned.error \notin CrcMismatchErrors
            /\ on_line[1].kind = "crc" =>
                  \A byte \in {0, BOOTLOADER_FRAME_START} :
                      returned # ReturnedToCaller(call.op,
                                     DecodeOn(call.op, WithEndMarker(built, byte)))

\* C30. Decode rejects a frame whose length field exceeds 1024 immediately
\* after reading the 2 length bytes, without reading any payload, CRC or end
\* byte; no successful decode ever returns a payload longer than 1024 bytes.
C30_OversizeLengthRejected ==
    \A k \in DOMAIN decoder_calls :
        LET call == decoder_calls[k]
        IN  /\ (on_line[1].kind = "length" /\ on_line[1].n > 1024) =>
                  /\ ~call.result.some
                  /\ call.result.error \in InvalidLengthErrors
                  /\ call.result.rest = Drop(call.input, 3)
            /\ call.result.error \in InvalidLengthErrors =>
                  UnpackBE16(SubSeq(call.input, 2, 3)) > 1024
            /\ call.result.some => Len(call.result.data) <= 1024

\* a frame stating 1025 bytes was rejected by parse_frame with everything
\* after its length field still on the line
C30_RejectedAtLengthField ==
    /\ decoder_calls # <<>>
    /\ on_line[1].kind = "length"
    /\ on_line[1].n = 1025
    /\ payload # <<>>
    /\ decoder_calls[1].op = "parse_frame"
    /\ decoder_calls[1].result.error = "Invalid payload length"
    /\ wire = Drop(decoder_calls[1].input, 3)
    /\ wire # <<>>

-----------------------------------------------------------------------------
(* Properties: requests, log and injectors, second part (Spec) *)

\* C31. A payload longer than 1024 bytes is rejected before encoding: a
\* phase operation whose serialized request exceeds 1024 bytes returns
\* success=false with no byte written to the transport and no transmission
\* record appended.
C31_OversizeRequestNotSent ==
    \A op \in PhaseOperationSet :
        (JustReturned(op) /\ done.loc.request.payload_len > 1024) =>
            /\ ret.t = "ProtocolResult"
            /\ ~ret.success
            /\ Len(transmission_log) = done.base

\* a data transfer of 1024 bytes on an open transport
C31_OversizeDataTransfer ==
    /\ JustReturned("execute_data_transfer")
    /\ done.arg.n = 1024
    /\ done.loc.request.payload_len > 1024
    /\ serial_conn = "open"
    /\ ~ret.success

-----------------------------------------------------------------------------
(* Specification of UniversalFrameParser.parse_frame_with_retry *)

DEFAULT_MAX_ATTEMPTS == 3

\* the max_attempts a caller passes
AttemptLimits == 0..DEFAULT_MAX_ATTEMPTS

\* how many things a sender puts on the line during one call
MaxChunks == 2

RetryChunks == {chunk \in Chunks : chunk.kind = "garbage" => (chunk.n = 1 /\ chunk.byte = 85)}

\* ParseResult(success=False, error="All attempts failed")
AllAttemptsFailed == NotReceived("All attempts failed", <<>>)

\* the payloads of the frames on the line: empty, one plain byte, one byte
\* that build_frame escapes
RetryPayloads == {data \in Payloads : Len(data) <= 1}

\* the sender builds the frame of a payload
BuildRetryFrame ==
    /\ built = <<>>
    /\ \E data \in RetryPayloads :
         /\ payload' = data
         /\ built' = build_frame(data)
    /\ UNCHANGED <<wire, decoded, streamVars, checksumVars, clientVars, safetyVars>>

\* bytes reach the line before the call or between two attempts of it
ArriveOnStream ==
    /\ built # <<>>
    /\ done = NoDone
    /\ Len(on_line) < MaxChunks
    /\ \E chunk \in RetryChunks :
         /\ on_line' = Append(on_line, chunk)
         /\ wire' = wire \o ChunkBytes(chunk)
    /\ UNCHANGED <<payload, built, decoded, state, decoder_calls, checksumVars, clientVars, safetyVars>>

\* a caller starts parse_frame_with_retry(max_attempts)
InvokeRetry ==
    /\ built # <<>>
    /\ stack = <<>>
    /\ done = NoDone
    /\ \E max_attempts \in AttemptLimits :
         stack' = <<[Frame("parse_frame_with_retry", [max_attempts |-> max_attempts])
                       EXCEPT !.base = Len(decoder_calls),
                              !.loc = [attempt |-> 0, last_result |-> NoneResult]]>>
    /\ UNCHANGED <<serial_conn, transmission_log, config_loaded, ret, done, codecVars, safetyVars>>

\* (a loop that runs once more than asked)
RangeExhaustedLate(attempt, max_attempts) == attempt > max_attempts

\* for attempt in range(max_attempts): the loop is over
RangeExhausted(attempt, max_attempts) == attempt >= max_attempts

\* one iteration of the loop of parse_frame_with_retry: parse_frame reads the
\* line; a success is returned, a failure is kept and the parser is reset;
\* after the loop the last failure is returned
parse_frame_with_retry ==
    /\ Running("parse_frame_with_retry", "start")
    /\ IF RangeExhausted(Top.loc.attempt, Top.arg.max_attempts)
         THEN /\ Return(IF Top.loc.last_result = NoneResult
                           THEN AllAttemptsFailed ELSE Top.loc.last_result,
                        Top.loc)
              /\ UNCHANGED <<wire, state, decoder_calls>>
         ELSE LET result == parse_frame_on(wire)
                  parsed == [op |-> "parse_frame", input |-> wire, result |-> result]
                  reset == [op |-> "reset_parser", input |-> result.rest,
                            result |-> NotReceived("none", result.rest)]
              IN /\ wire' = result.rest
                 /\ IF result.some
                      THEN /\ Return(result, Top.loc)
                           /\ decoder_calls' = Append(decoder_calls, parsed)
                           /\ UNCHANGED state
                      ELSE /\ Goto("start", [attempt |-> Top.loc.attempt + 1,
                                              last_result |-> result])
                           /\ decoder_calls' = decoder_calls \o <<parsed, reset>>
                           /\ state' = "IDLE"
    /\ UNCHANGED <<serial_conn, transmission_log, config_loaded, payload, built, decoded,
                   on_line, checksumVars, safetyVars>>

NextRetry ==
    \/ BuildRetryFrame
    \/ ArriveOnStream
    \/ InvokeRetry
    \/ parse_frame_with_retry

SpecRetry == Init /\ [][NextRetry]_vars

\* what a call of parse_frame_with_retry added to the record of decoder calls
RetryCalls(base) == SubSeq(decoder_calls, base + 1, Len(decoder_calls))

RetryAttempts(base) == SelectSeq(RetryCalls(base), LAMBDA call : call.op = "parse_frame")

\* every decode but the last failed and was followed by a reset of the parser
ResetAfterEachFailure(calls) ==
    \A k \in 1..Len(calls) :
        calls[k].op = "parse_frame" =>
            \/ /\ calls[k].result.some
               /\ k = Len(calls)
            \/ /\ ~calls[k].result.some
               /\ k < Len(calls)
               /\ calls[k + 1].op = "reset_parser"

\* C32. parse_frame_with_retry makes at most max_attempts decode attempts,
\* resets the parser after each failed attempt, and returns the first
\* successful result without further attempts; when no attempt succeeds it
\* returns the last failure. Each attempt is one pass of parse_frame over
\* the line.
C32_RetryAtMostMaxAttempts ==
    /\ JustReturned("parse_frame_with_retry") =>
          LET attempts == RetryAttempts(done.base)
              n == Len(attempts)
          IN /\ n <= done.arg.max_attempts
             /\ ResetAfterEachFailure(RetryCalls(done.base))
             /\ \A k \in 1..n : attempts[k].result = parse_frame_on(attempts[k].input)
             /\ n > 0 => ret = attempts[n].result
             /\ ret.some => n > 0
             /\ ~ret.some => n = done.arg.max_attempts
    /\ Running("parse_frame_with_retry", "start") =>
          /\ Len(RetryAttempts(Top.base)) = Top.loc.attempt
          /\ ResetAfterEachFailure(RetryCalls(Top.base) \o
                                   <<[op |-> "parse_frame", result |-> [some |-> TRUE]]>>)

\* the third attempt succeeded after two that failed
C32_SucceededOnThirdAttempt ==
    /\ JustReturned("parse_frame_with_retry")
    /\ done.arg.max_attempts = 3
    /\ Len(RetryAttempts(done.base)) = 3
    /\ ret.some
    /\ ret.data = payload

-----------------------------------------------------------------------------
(* Specification of the two decoders read by read, on a line that goes quiet *)

\* time is counted in transport timeouts: a read that returns nothing took
\* one of them (UniversalFrameParser.__init__ sets serial.timeout to
\* read_timeout_ms / 1000)
READ_TIMEOUT == 1

\* the clock is not followed beyond this
MaxTicks == 3

Tick(elapsed) == IF elapsed < MaxTicks THEN elapsed + 1 ELSE elapsed

\* (a wait without a limit)
ExpiredNever(elapsed) == FALSE

\* (time.time() - start_time) * 1000 > self.read_timeout_ms
Expired(elapsed) == elapsed > READ_TIMEOUT

FrameByte == [kind |-> "partial", n |-> 1, byte |-> 0]
NoiseByte == [kind |-> "garbage", n |-> 1, byte |-> 85]

\* how many bytes of the frame have reached the line
Delivered == Len(SelectSeq(on_line, LAMBDA chunk : chunk.kind = "partial"))

\* the next byte reaches the line: a byte of noise before the frame, or the
\* next byte of the frame; the link may stop delivering at any point
DeliverByte ==
    /\ built # <<>>
    /\ \/ /\ on_line = <<>>
          /\ on_line' = <<NoiseByte>>
          /\ wire' = Append(wire, NoiseByte.byte)
       \/ /\ Delivered < Len(built)
          /\ on_line' = Append(on_line, FrameByte)
          /\ wire' = Append(wire, built[Delivered + 1])
    /\ UNCHANGED <<payload, built, decoded, state, decoder_calls, checksumVars, clientVars, safetyVars>>

NoBytes ==
    [consumed |-> <<>>, got |-> <<>>, attempts |-> 0, elapsed |-> 0,
     length |-> 0, data |-> <<>>, crc |-> <<>>]

\* a caller starts one of the decoders
InvokeDecode ==
    /\ built # <<>>
    /\ stack = <<>>
    /\ decoder_calls = <<>>
    /\ \E op \in Decoders :
         stack' = <<[Frame(op, NoArg) EXCEPT !.loc = NoBytes]>>
    /\ UNCHANGED <<serial_conn, transmission_log, config_loaded, ret, done, codecVars, safetyVars>>

\* the decoder returns; loc holds what it has read
ReturnDecoded(result, loc) ==
    /\ Return(result, loc)
    /\ decoder_calls' = Append(decoder_calls,
                               [op |-> Top.proc, input |-> loc.consumed, result |-> result])

\* the decoder goes on with its next read
ReadOn(pc, loc) ==
    /\ Goto(pc, loc)
    /\ UNCHANGED decoder_calls

FieldLength(field, payload_length) ==
    CASE field = "length"  -> 2
      [] field = "payload" -> payload_length
      [] field = "crc"     -> 2
      [] field = "end"     -> 1

NextField(field) ==
    CASE field = "length"  -> "payload"
      [] field = "payload" -> "crc"
      [] field = "crc"     -> "end"

\* the failure each decoder reports when a field did not arrive
FieldMissing(op, field) ==
    IF op = "receive_response"
    THEN CASE field = "length"  -> "no length"
           [] field = "payload" -> "incomplete payload"
           [] field = "crc"     -> "no crc"
           [] field = "end"     -> "invalid end marker"
    ELSE CASE field = "length"  -> "Failed to read length field"
           [] field = "payload" -> "Incomplete payload"
           [] field = "crc"     -> "Failed to read CRC field"
           [] field = "end"     -> "Failed to read end marker"

\* the last checks of both decoders: end marker, then CRC
EndChecked(op, loc, end_byte) ==
    IF end_byte # <<BOOTLOADER_FRAME_END>>
    THEN NotReceived(IF op = "receive_response" THEN "invalid end marker"
                     ELSE "Invalid end marker", <<>>)
    ELSE IF UnpackBE16(loc.crc) # calculate_frame_crc16(loc.length, loc.data)
    THEN NotReceived(IF op = "receive_response" THEN "crc mismatch" ELSE "CRC mismatch", <<>>)
    ELSE Received(loc.data, <<>>)

\* the decoder has the bytes of a field
FieldStored(field, loc, got) ==
    CASE field = "length"  -> [loc EXCEPT !.length = UnpackBE16(got)]
      [] field = "payload" -> [loc EXCEPT !.data = got]
      [] field = "crc"     -> [loc EXCEPT !.crc = got]
      [] field = "end"     -> loc

\* one read of ProtocolClient.receive_response: read(1) in the search for
\* the start marker, then one read for each field
receive_response_reading ==
    /\ stack # <<>>
    /\ Top.proc = "receive_response"
    /\ LET l == Top.loc
       IN  IF serial_conn # "open"
           THEN /\ ReturnDecoded(NotReceived("not open", <<>>), l)
                /\ UNCHANGED wire
           ELSE IF Top.pc = "start"
           THEN IF l.attempts >= SYNC_ATTEMPTS
                THEN /\ ReturnDecoded(NotReceived("no start marker", <<>>), l)
                     /\ UNCHANGED wire
                ELSE IF wire = <<>>
                THEN /\ ReadOn("start", [l EXCEPT !.attempts = @ + 1])
                     /\ UNCHANGED wire
                ELSE /\ wire' = Tail(wire)
                     /\ IF Head(wire) = BOOTLOADER_FRAME_START
                        THEN ReadOn("length", [l EXCEPT !.consumed = Append(@, Head(wire))])
                        ELSE ReadOn("start", [l EXCEPT !.consumed = Append(@, Head(wire)),
                                                       !.attempts = @ + 1])
           ELSE LET num == FieldLength(Top.pc, l.length)
                    chunk == Take(wire, num)
                    read == [l EXCEPT !.consumed = @ \o chunk]
                IN  /\ wire' = Drop(wire, num)
                    /\ IF Top.pc = "end"
                       THEN ReturnDecoded(EndChecked(Top.proc, read, chunk), read)
                       ELSE IF Len(chunk) # num
                       THEN ReturnDecoded(NotReceived(FieldMissing(Top.proc, Top.pc), <<>>), read)
                       ELSE IF Top.pc = "length" /\ UnpackBE16(chunk) > BOOTLOADER_MAX_PAYLOAD_SIZE
                       THEN ReturnDecoded(NotReceived("invalid length", <<>>), read)
                       ELSE ReadOn(NextField(Top.pc), FieldStored(Top.pc, read, chunk))
    /\ UNCHANGED <<serial_conn, transmission_log, config_loaded, payload, built, decoded,
                   state, on_line, checksumVars, safetyVars>>

\* parse_frame has the field read_with_timeout returned: it checks it and
\* goes on
FieldRead(field, loc, got) ==
    IF NothingRead(got, FieldLength(field, loc.length))
    THEN ReturnDecoded(NotReceived(FieldMissing(Top.proc, field), <<>>), loc)
    ELSE IF field = "end"
    THEN ReturnDecoded(EndChecked(Top.proc, loc, got), loc)
    ELSE IF field = "length" /\ UnpackBE16(got) > BOOTLOADER_MAX_PAYLOAD_SIZE
    THEN ReturnDecoded(NotReceived("Invalid payload length", <<>>), loc)
    ELSE ReadOn(NextField(field),
                [FieldStored(field, loc, got) EXCEPT !.got = <<>>, !.elapsed = 0])

\* one read of UniversalFrameParser.parse_frame: read(1) in find_frame_start,
\* read(remaining) in read_with_timeout
parse_frame_reading ==
    /\ stack # <<>>
    /\ Top.proc = "parse_frame"
    /\ LET l == Top.loc
       IN  IF Top.pc = "start"
           THEN IF Expired(l.elapsed)
                THEN /\ ReturnDecoded(NotReceived("Frame start marker not found", <<>>), l)
                     /\ UNCHANGED wire
                ELSE IF wire = <<>>
                THEN /\ ReadOn("start", [l EXCEPT !.elapsed = Tick(@)])
                     /\ UNCHANGED wire
                ELSE /\ wire' = Tail(wire)
                     /\ IF Head(wire) = BOOTLOADER_FRAME_START
                        THEN ReadOn("length", [l EXCEPT !.consumed = Append(@, Head(wire)),
                                                        !.elapsed = 0])
                        ELSE ReadOn("start", [l EXCEPT !.consumed = Append(@, Head(wire))])
           ELSE LET num == FieldLength(Top.pc, l.length)
                    remaining == num - Len(l.got)
                    chunk == Take(wire, remaining)
                    read == [l EXCEPT !.got = @ \o chunk, !.consumed = @ \o chunk]
                IN  IF remaining <= 0
                    THEN /\ FieldRead(Top.pc, l, l.got)
                         /\ UNCHANGED wire
                    ELSE IF chunk = <<>>
                    THEN /\ UNCHANGED wire
                         /\ IF Expired(Tick(l.elapsed))
                            THEN ReturnDecoded(NotReceived(FieldMissing(Top.proc, Top.pc), <<>>), l)
                            ELSE ReadOn(Top.pc, [l EXCEPT !.elapsed = Tick(@)])
                    ELSE /\ wire' = Drop(wire, remaining)
                         /\ IF Len(read.got) < num
                            THEN ReadOn(Top.pc, read)
                            ELSE FieldRead(Top.pc, read, read.got)
    /\ UNCHANGED <<serial_conn, transmission_log, config_loaded, payload, built, decoded,
                   state, on_line, checksumVars, safetyVars>>

NextQuiet ==
    \/ connect
    \/ BuildRetryFrame
    \/ DeliverByte
    \/ InvokeDecode
    \/ receive_response_reading
    \/ parse_frame_reading

\* the decoder's thread keeps running, and every transport read returns
\* within its timeout
SpecQuiet ==
    /\ Init
    /\ [][NextQuiet]_vars
    /\ WF_vars(receive_response_reading)
    /\ WF_vars(parse_frame_reading)

DecodeReturned == \E op \in Decoders : JustReturned(op)

\* C33. Every decode attempt terminates: when the link stops delivering
\* bytes, before the start marker or in the middle of any field, parse_frame
\* and receive_response eventually return, and what they return for a frame
\* that did not arrive whole is a failure result.
C33_DecodeTerminates ==
    (stack # <<>>) ~> /\ stack = <<>>
                      /\ DecodeReturned
                      /\ Delivered < Len(built) => ~ret.some

\* parse_frame gave up on a frame that stopped in the middle of a field
C33_GaveUpInsideField ==
    /\ JustReturned("parse_frame")
    /\ Delivered > 1
    /\ Delivered < Len(built)
    /\ done.loc.consumed = SubSeq(built, 1, Delivered)
    /\ ~ret.some

-----------------------------------------------------------------------------
(* Specification of the client with callers that send frames of their own *)

SentDirectly ==
    {EmptyFrame, PartialFrame, RequestFrame("handshake", 1, 0),
     corrupt_frame_crc(RequestFrame("handshake", 1, 0))}

InvokeSend == Start({Frame("send_raw_frame", [frame |-> frame]) : frame \in SentDirectly})

NextSend == Next \/ InvokeSend

SpecSend == Init /\ [][NextSend]_vars

\* the record at the end of the log says what the write did
LastRecordWellFormed(log) ==
    LET record == log[Len(log)]
    IN  /\ record.success <=> (record.bytes_written = record.frame_length_total)
        /\ record.error => record.bytes_written = 0

-----------------------------------------------------------------------------
(* Properties: the injectors (Spec) *)

\* the records an activation has added to the transmission log
LoggedSince(base) == SubSeq(transmission_log, base + 1, Len(transmission_log))

\* C35. inject_timeout_handshake performs exactly one handshake after the
\* delay and returns success=true both when the device accepts the late
\* handshake and when it rejects it; it returns a failure only when an
\* exception was raised inside it, and then no handshake was performed.
C35_OneHandshakeEitherWay ==
    JustReturned("inject_timeout_handshake") =>
        LET handshakes == done.loc.results
            logged == LoggedSince(done.base)
        IN  /\ ret.t = "ProtocolResult"
            /\ Len(handshakes) <= 1
            /\ ret.success <=> Len(handshakes) = 1
            /\ ~ret.success => (logged = <<>> /\ ret.message = <<"Handshake timeout test error">>)
            /\ Len(logged) <= 1
            /\ \A k \in 1..Len(logged) : logged[k].frame_hex_preview.req = "handshake"

\* the device did not accept the late handshake, and the injector reports
\* success
C35_RejectedHandshakeReported ==
    /\ JustReturned("inject_timeout_handshake")
    /\ Len(done.loc.results) = 1
    /\ ~done.loc.results[1].success
    /\ Len(LoggedSince(done.base)) = 1
    /\ LoggedSince(done.base)[1].success
    /\ ret.success

\* the one frame an activation has written is the corrupted handshake
OnlyCorruptedLogged(base) ==
    /\ Len(LoggedSince(base)) = 1
    /\ LoggedSince(base)[1].frame_hex_preview.req = "corrupted"

\* C36. inject_crc_frame_corruption sends the recovery handshake only after
\* the corrupted frame was sent and got no valid response; when the
\* corrupted frame is answered with a valid frame it returns success=false
\* and sends no further frame, and when the corrupted frame could not be sent
\* it returns success=false without attempting a receive.
C36_RecoveryOnlyAfterRejection ==
    /\ JustReturned("inject_crc_frame_corruption") =>
          LET l == done.loc
              logged == LoggedSince(done.base)
          IN  /\ l.recovery # NoRet => (l.sent /\ ~l.answered)
              /\ l.answered => (~ret.success /\ OnlyCorruptedLogged(done.base))
              /\ ~l.sent => /\ ~ret.success
                            /\ l.recovery = NoRet
                            /\ ~l.answered
                            /\ \A k \in 1..Len(logged) : ~logged[k].success
              /\ ret.success => l.recovery # NoRet
    /\ \A k \in 2..Len(stack) :
          stack[k - 1].proc = "inject_crc_frame_corruption" =>
              /\ stack[k].proc = "receive_response" =>
                    /\ OnlyCorruptedLogged(stack[k - 1].base)
                    /\ LoggedSince(stack[k - 1].base)[1].success
              /\ stack[k].proc = "execute_handshake" =>
                    /\ stack[k - 1].loc.sent
                    /\ ~stack[k - 1].loc.answered
                    /\ LoggedSince(stack[k - 1].base)[1].frame_hex_preview.req = "corrupted"

\* the device answered the corrupted frame with a valid frame
C36_CorruptedFrameAnswered ==
    /\ JustReturned("inject_crc_frame_corruption")
    /\ done.loc.answered
    /\ ~ret.success
    /\ Len(LoggedSince(done.base)) = 1

-----------------------------------------------------------------------------
(* Specification of the DataPacket execute_data_transfer serializes *)

\* a 32-bit value, kept as two 16-bit halves, shifted right by 7 bits
ShiftRight7(v) == <<v[1] \div 128, (v[2] \div 128) + ((v[1] % 128) * 512)>>

\* the varint loop: while v >= 0x80: append((v & 0x7F) | 0x80); v >>= 7
RECURSIVE EncodeVarint(_)
EncodeVarint(v) ==
    IF v[1] = 0 /\ v[2] < 128 THEN <<v[2]>>
    ELSE <<(v[2] % 128) + 128>> \o EncodeVarint(ShiftRight7(v))

\* the value a varint stands for: 7 bits a byte, low group first
RECURSIVE DecodeVarint(_)
DecodeVarint(bytes) ==
    IF bytes = <<>> THEN <<0, 0>>
    ELSE LET rest == DecodeVarint(Tail(bytes))
         IN  <<((rest[2] \div 512) + (rest[1] * 128)) % 65536,
               (Head(bytes) % 128) + ((rest[2] % 512) * 128)>>

DataPacket(offset, data, data_crc32) ==
    [offset |-> offset, data |-> data, data_crc32 |-> data_crc32]

\* the manual wire format: offset 0 written out, data, data_crc32 written out
_create_nanopb_compatible_datapacket(data_packet) ==
    <<8, 0>>
    \o <<18>> \o EncodeVarint(<<0, Len(data_packet.data)>>) \o data_packet.data
    \o <<24>> \o EncodeVarint(data_packet.data_crc32)

\* what the protobuf library writes for a DataPacket: a field that holds its
\* default value (0, no bytes) is left out
SerializeToString(data_packet) ==
    (IF data_packet.offset = 0 THEN <<>>
     ELSE <<8>> \o EncodeVarint(<<0, data_packet.offset>>))
    \o (IF data_packet.data = <<>> THEN <<>>
        ELSE <<18>> \o EncodeVarint(<<0, Len(data_packet.data)>>) \o data_packet.data)
    \o (IF data_packet.data_crc32 = <<0, 0>> THEN <<>>
        ELSE <<24>> \o EncodeVarint(data_packet.data_crc32))

\* execute_data_transfer builds the DataPacket of the data whose CRC32 it has
\* computed and serializes it
DataPacketOf ==
    /\ checksums.crc32 # <<>>
    /\ decoder_calls = <<>>
    /\ decoder_calls' =
         <<[op |-> "SerializeToString", input |-> checksums.data,
            result |-> Received(SerializeToString(
                           DataPacket(0, checksums.data, checksums.crc32)), <<>>)]>>
    /\ UNCHANGED <<payload, built, wire, decoded, state, on_line, checksumVars, clientVars,
                   safetyVars>>

NextPacket ==
    \/ Crc16Of
    \/ Crc32Of
    \/ DataPacketOf

SpecPacket == Init /\ [][NextPacket]_vars

\* the packet holds tag 0x18 followed by the varint of crc, at its end
EndsWithCrc32(packet, crc) ==
    LET varint == EncodeVarint(crc)
        at == Len(packet) - Len(varint)
    IN  /\ at >= 1
        /\ packet[at] = 24
        /\ SubSeq(packet, at + 1, Len(packet)) = varint

\* C37. The DataPacket sent by transfer always carries offset and data_crc32
\* explicitly, even when they are zero: the serialized packet starts with the
\* offset field 0x08 0x00 and contains tag 0x18 followed by the varint of the
\* CRC32 of the data, and that varint decodes to the same value.
C37_OffsetAndCrcExplicit ==
    \A k \in 1..Len(decoder_calls) :
        decoder_calls[k].op = "SerializeToString" =>
            LET packet == decoder_calls[k].result.data
            IN  /\ Take(packet, 2) = <<8, 0>>
                /\ EndsWithCrc32(packet, checksums.crc32)
                /\ DecodeVarint(EncodeVarint(checksums.crc32)) = checksums.crc32

-----------------------------------------------------------------------------
(* Properties: the orchestrator, second part (SpecOrchestrator) *)

\* C38. Validation is attempted only when the scenario action succeeded:
\* validate_scenario runs under execute_single_scenario only with a
\* successful action result, and when the action returned a failure or
\* raised, the scenario returns an unsuccessful ScenarioResult without any
\* validation.
C38_ValidationOnlyAfterSuccess ==
    /\ \A k \in 2..Len(stack) :
          (stack[k - 1].proc = "execute_single_scenario" /\ stack[k].proc = "validate_scenario") =>
              /\ stack[k - 1].loc.result.t = "ProtocolResult"
              /\ stack[k - 1].loc.result.success
    /\ JustReturned("execute_single_scenario") =>
          /\ done.loc.validation_result # NoRet =>
                (done.loc.result.t = "ProtocolResult" /\ done.loc.result.success)
          /\ (done.loc.result.t = "None"
                 \/ (done.loc.result.t = "ProtocolResult" /\ ~done.loc.result.success)) =>
                /\ done.loc.validation_result = NoRet
                /\ ret.t = "ScenarioResult"
                /\ ~ret.success

\* the scenario action failed on an open transport and nothing was validated
C38_FailedActionNotValidated ==
    /\ JustReturned("execute_single_scenario")
    /\ done.loc.result.t = "ProtocolResult"
    /\ ~done.loc.result.success
    /\ done.loc.validation_result = NoRet
    /\ serial_conn = "open"
    /\ ~ret.success

\* the error types and injection points the dispatcher knows
KnownErrorTypes == {"none", "timeout", "crc_corruption"}
KnownInjectionPoints == {"after_handshake", "before_handshake", "partial_frame"}

\* the configuration names no operation the dispatcher can run
NothingToRun(scenario_config) ==
    LET error_type == Get(scenario_config, "error_type", "none")
    IN  \/ error_type \notin KnownErrorTypes
        \/ /\ error_type = "timeout"
           /\ Get(scenario_config, "injection_point", "after_handshake")
                  \notin KnownInjectionPoints

\* C39. execute_single_scenario always returns a ScenarioResult and never
\* raises: a timeout scenario with an unrecognised injection_point, for which
\* the dispatcher returns no result, and a scenario with an unknown
\* error_type both yield an unsuccessful ScenarioResult.
C39_AlwaysAScenarioResult ==
    JustReturned("execute_single_scenario") =>
        /\ ret.t = "ScenarioResult"
        /\ ret.scenario_name = done.arg.scenario_name
        /\ done.loc.result.t = "None" => ~ret.success
        /\ (done.arg.scenario_name \in DOMAIN scenarios_config
             /\ NothingToRun(scenarios_config[done.arg.scenario_name])) =>
               /\ ~ret.success
               /\ done.loc.validation_result = NoRet
               /\ Len(transmission_log) = done.base

\* the dispatcher returned nothing for the injection point of the scenario
C39_DispatcherReturnedNone ==
    /\ JustReturned("execute_single_scenario")
    /\ done.arg.scenario_name = "bad_point"
    /\ done.loc.result = NoneResult
    /\ ret.t = "ScenarioResult"
    /\ ~ret.success

\* an activation of execute_scenario_sequence inside its loop holds one result
\* for each named step before its position, and the step it is running is a
\* named one
OneResultPerNamedStep(j) ==
    LET steps == ListingOf(stack[j])
        loc == stack[j].loc
    IN  /\ Len(loc.scenario_results) = Len(NamedSteps(SubSeq(steps, 1, loc.i - 1)))
        /\ j < Len(stack) => steps[loc.i].kind # "other"

\* C40. A sequence step that is neither a scenario name nor a mapping is
\* skipped: it adds no ScenarioResult and does not fail the sequence.  A
\* configured sequence returns at most one result for each named step, exactly
\* one each when it succeeds, and a sequence whose listing is empty or holds
\* only such steps returns success with zero results.
C40_OtherStepsSkipped ==
    /\ \A j \in 1..Len(stack) :
          (stack[j].proc = "execute_scenario_sequence" /\ stack[j].pc # "start")
              => OneResultPerNamedStep(j)
    /\ (JustReturned("execute_scenario_sequence")
          /\ ret.failed_at_scenario # "configuration_missing") =>
            LET steps == SequenceCatalog[done.arg.sequence_name].sequence
            IN  /\ Len(ret.scenario_results) <= Len(NamedSteps(steps))
                /\ ret.success => Len(ret.scenario_results) = Len(NamedSteps(steps))
                /\ NamedSteps(steps) = <<>> =>
                      /\ ret.success
                      /\ ret.scenario_results = <<>>
                      /\ ret.failed_at_scenario = "None"

\* a sequence of two steps that name no scenario has returned success with
\* no result
C40_OnlyOtherSteps ==
    /\ JustReturned("execute_scenario_sequence")
    /\ Len(done.arg.sequence_name) = 2
    /\ \A k \in 1..2 : done.arg.sequence_name[k].kind = "other"
    /\ ret.success
    /\ ret.scenario_results = <<>>

\* the empty listing has returned success with no result
C40_EmptyListing ==
    /\ JustReturned("execute_scenario_sequence")
    /\ done.arg.sequence_name = <<>>
    /\ ret.success
    /\ ret.scenario_results = <<>>

\* a step that names no scenario was skipped between two scenarios that ran
C40_SkippedBetweenScenarios ==
    /\ JustReturned("execute_scenario_sequence")
    /\ Len(done.arg.sequence_name) = 3
    /\ done.arg.sequence_name[2].kind = "other"
    /\ Len(ret.scenario_results) = 2

====
